---- MODULE Spec2Model ----
(***************************************************************************)
(* Client-side list state controller of the todo application.             *)
(*                                                                         *)
(* The model follows the full Todos page (src/unnamed/part_001) and the    *)
(* create form (src/src/pages/NewTodo.tsx), which share one query cache    *)
(* under the key ["todos"].  The remote collection is an opaque REST       *)
(* resource; the model keeps its content in `server`.                      *)
(*                                                                         *)
(* Strings are sequences of one-character strings, so that trimming,      *)
(* prefix tests and String(id) are computed as the code computes them.     *)
(***************************************************************************)
EXTENDS Integers, Sequences, FiniteSets, TLC

(***************************************************************************)
(* Bounds of the model                                                     *)
(***************************************************************************)
\* mutating operations (toggle, edit, bulk complete, delete, bulk delete,
\* create) the user starts in one behaviour; the clicks that only prepare one
\* (row selection, opening a modal) stop with the budget
MaxOps == 2
\* manual refreshes the user starts in one behaviour
MaxRefresh == 1

(***************************************************************************)
(* Identifiers, keys, items                                                *)
(***************************************************************************)
\* Todo["id"]: number | string
NumId(n) == [num |-> TRUE, n |-> n, s |-> <<>>]
StrId(s) == [num |-> FALSE, n |-> 0, s |-> s]

Digit(d) == <<"0", "1", "2", "3", "4", "5", "6", "7", "8", "9">>[d + 1]

RECURSIVE Digits(_)
\* String(n) of a non-negative integer
Digits(n) == IF n < 10 THEN <<Digit(n)>> ELSE Digits(n \div 10) \o <<Digit(n % 10)>>

\* toKey(id) = String(id)
toKey(id) == IF id.num THEN Digits(id.n) ELSE id.s

TempPrefix == <<"t", "e", "m", "p", "-">>

\* s.startsWith(p)
StartsWith(s, p) == Len(s) >= Len(p) /\ SubSeq(s, 1, Len(p)) = p

isTempIdNever(id) == FALSE

\* isTempId(id) = typeof id === "string" && id.startsWith("temp-")
isTempId(id) == (~id.num) /\ StartsWith(id.s, TempPrefix)

\* clampInt(v, min, max) = Math.min(max, Math.max(min, v))
clampInt(v, min, max) ==
  LET lo == IF v > min THEN v ELSE min
  IN  IF lo < max THEN lo ELSE max

Todo(id, title, completed) == [id |-> id, title |-> title, completed |-> completed]

\* the identifiers and titles the model uses
Id1 == NumId(1)
IdTemp == StrId(TempPrefix \o <<"7">>)

TitleA == <<"a", "b", "c">>
TitleT == <<"t", "m", "p">>
TitleNew == <<"n", "e", "w">>

\* what the user may type in the edit modal: a valid title with blanks
\* around it, and a title too short once trimmed
EditInputs == {<<" ", "x", "y", "z", " ">>, <<" ", "x", "y", " ">>}


\* Date.now() when the page is opened
ClockStart == 5

\* the identifier the server gives to the first item created
FirstNewId == 2

\* the remote collection when the page is opened: one persisted item and one
\* whose identifier carries the temporary prefix
InitialServer ==
  <<Todo(Id1, TitleA, FALSE), Todo(IdTemp, TitleT, FALSE)>>

(***************************************************************************)
(* Sequence helpers                                                        *)
(***************************************************************************)
Range(f) == {f[i] : i \in DOMAIN f}

Keys(items) == {toKey(items[i].id) : i \in DOMAIN items}

\* Array.prototype.findIndex, 0-based, -1 when absent
findIndex(old, key) ==
  LET from[i \in 1..(Len(old) + 1)] ==
        IF i > Len(old) THEN -1
        ELSE IF toKey(old[i].id) = key THEN i - 1
        ELSE from[i + 1]
  IN  from[1]

\* base.splice(idx, 0, item), idx 0-based and within 0..base.length
splice(base, idx, item) ==
  SubSeq(base, 1, idx) \o <<item>> \o SubSeq(base, idx + 1, Len(base))

\* String.prototype.trim
trim(s) ==
  LET kept == {i \in DOMAIN s : s[i] # " "}
  IN  IF kept = {} THEN <<>>
      ELSE SubSeq(s, CHOOSE i \in kept : \A j \in kept : i <= j,
                     CHOOSE i \in kept : \A j \in kept : j <= i)

(***************************************************************************)
(* Local cache operations                                                  *)
(***************************************************************************)
\* old.map((t) => (t.id === next.id ? next : t))
ReplaceById(old, next) ==
  [i \in DOMAIN old |-> IF old[i].id = next.id THEN next ELSE old[i]]

\* removeFromCache: old.filter((t) => !idSet.has(toKey(t.id)))
removeFromCache(old, ids) ==
  LET idSet == {toKey(ids[i]) : i \in DOMAIN ids}
      Keep(t) == toKey(t.id) \notin idSet
  IN  SelectSeq(old, Keep)

\* zipped.sort((a, b) => a.idx - b.idx): a stable sort, written as the
\* positions of the pairs in sorted order
RECURSIVE SortedPositions(_, _)
SortedPositions(indices, left) ==
  IF left = {} THEN <<>>
  ELSE LET p == CHOOSE q \in left :
                  \A r \in left :
                    indices[q] < indices[r] \/ (indices[q] = indices[r] /\ q <= r)
       IN  <<p>> \o SortedPositions(indices, left \ {p})

\* the for loop of restoreIntoCache over the sorted pairs
RECURSIVE RestoreLoop(_, _, _, _)
RestoreLoop(base, items, indices, order) ==
  IF order = <<>> THEN base
  ELSE LET z == Head(order)
           k == toKey(items[z].id)
       IN  IF k \in Keys(base)
           THEN RestoreLoop(base, items, indices, Tail(order))
           ELSE RestoreLoop(splice(base, clampInt(indices[z], 0, Len(base)), items[z]),
                            items, indices, Tail(order))

RECURSIVE RestoreLoopNoCheck(_, _, _, _)
RestoreLoopNoCheck(base, items, indices, order) ==
  IF order = <<>> THEN base
  ELSE LET z == Head(order)
       IN  RestoreLoopNoCheck(splice(base, clampInt(indices[z], 0, Len(base)), items[z]),
                              items, indices, Tail(order))

\* [...toAdd, ...base] with toAdd = items.filter(not already in base)
PrependMissing(base, items) ==
  LET NotIn(t) == toKey(t.id) \notin Keys(base)
  IN  SelectSeq(items, NotIn) \o base

restoreAppend(old, items, indices) == old \o items

restoreNoCheck(old, items, indices) ==
  RestoreLoopNoCheck(old, items, indices, SortedPositions(indices, DOMAIN items))

\* restoreIntoCache(items, indices) applied to the cached list old
restoreIntoCache(old, items, indices) ==
  IF Len(indices) = Len(items)
  THEN RestoreLoop(old, items, indices, SortedPositions(indices, DOMAIN items))
  ELSE PrependMissing(old, items)

(***************************************************************************)
(* View parameters: numbers, strings and the location's query string        *)
(***************************************************************************)
\* The numbers of the view (page, page size) are JavaScript numbers: the
\* model keeps them in tenths, so that Number("2.5") has a value of its own.
Tenth == 10

Whole(n) == n * Tenth

IsInteger(x) == x % Tenth = 0

\* a value that may be null
Null == [some |-> FALSE, v |-> <<>>]
Some(v) == [some |-> TRUE, v |-> v]

\* Number(x) of a string or null: null and the blank string give 0, a
\* decimal literal "ddd" or "ddd.d" (with sign, with blanks around it) gives
\* its value, anything else NaN
Number(x) ==
  LET NotANumber == [finite |-> FALSE, v |-> 0]
      Finite(v) == [finite |-> TRUE, v |-> v]
      IsDigit(c) == c \in {"0", "1", "2", "3", "4", "5", "6", "7", "8", "9"}
      DigitVal(c) == CHOOSE d \in 0..9 : Digit(d) = c
      AllDigits(s) == \A i \in DOMAIN s : IsDigit(s[i])
      DigitsVal(s) ==
        LET val[k \in 0..Len(s)] ==
              IF k = 0 THEN 0 ELSE val[k - 1] * 10 + DigitVal(s[k])
        IN  val[Len(s)]
      Unsigned(t) ==
        IF t # <<>> /\ AllDigits(t) THEN Finite(Whole(DigitsVal(t)))
        ELSE IF /\ Len(t) >= 3
                /\ t[Len(t) - 1] = "."
                /\ AllDigits(SubSeq(t, 1, Len(t) - 2))
                /\ IsDigit(t[Len(t)])
             THEN Finite(Whole(DigitsVal(SubSeq(t, 1, Len(t) - 2))) + DigitVal(t[Len(t)]))
        ELSE NotANumber
  IN  IF ~x.some THEN Finite(0)
      ELSE LET t == trim(x.v)
           IN  IF t = <<>> THEN Finite(0)
               ELSE IF Head(t) = "-"
                    THEN LET u == Unsigned(Tail(t))
                         IN  IF u.finite THEN Finite(0 - u.v) ELSE u
                    ELSE Unsigned(t)

\* String(x) of a number that is not negative
String(x) ==
  Digits(x \div Tenth) \o (IF IsInteger(x) THEN <<>> ELSE <<".", Digit(x % Tenth)>>)

\* String.prototype.toLowerCase on the letters the model uses
toLowerCase(s) ==
  LET LowerChar(c) == IF c = "A" THEN "a" ELSE IF c = "B" THEN "b" ELSE c
  IN  [i \in DOMAIN s |-> LowerChar(s[i])]

\* String.prototype.includes
includes(s, q) ==
  \E i \in 0..(Len(s) - Len(q)) : SubSeq(s, i + 1, i + Len(q)) = q

\* application/x-www-form-urlencoded: the characters URLSearchParams escapes
\* among those the model uses, and how
Escapes ==
  {[c |-> " ", e |-> <<"+">>],
   [c |-> "&", e |-> <<"%", "2", "6">>],
   [c |-> "=", e |-> <<"%", "3", "D">>],
   [c |-> "+", e |-> <<"%", "2", "B">>],
   [c |-> "%", e |-> <<"%", "2", "5">>]}

RECURSIVE encode(_)
encode(s) ==
  LET encodeChar(c) ==
        IF \E x \in Escapes : x.c = c THEN (CHOOSE x \in Escapes : x.c = c).e ELSE <<c>>
  IN  IF s = <<>> THEN <<>> ELSE encodeChar(Head(s)) \o encode(Tail(s))

\* the decoding of a value of the query string
RECURSIVE decode(_)
decode(s) ==
  IF s = <<>> THEN <<>>
  ELSE IF Head(s) = "+" THEN <<" ">> \o decode(Tail(s))
  ELSE IF Head(s) = "%" /\ Len(s) >= 3 /\ \E x \in Escapes : x.e = SubSeq(s, 1, 3)
       THEN <<(CHOOSE x \in Escapes : x.e = SubSeq(s, 1, 3)).c>> \o decode(SubSeq(s, 4, Len(s)))
  ELSE <<Head(s)>> \o decode(Tail(s))

\* new URLSearchParams(text): the name/value pairs of a query string (the
\* text is split once at every "&", each part at its first "=")
URLSearchParams(text) ==
  LET IndexOf(s, c) ==
        IF \E i \in DOMAIN s : s[i] = c
        THEN CHOOSE i \in DOMAIN s : s[i] = c /\ \A j \in 1..(i - 1) : s[j] # c
        ELSE 0
      Split ==
        LET rest[i \in 1..(Len(text) + 1)] ==
              LET j == IF \E k \in i..Len(text) : text[k] = "&"
                       THEN CHOOSE k \in i..Len(text) :
                              text[k] = "&" /\ \A m \in i..(k - 1) : text[m] # "&"
                       ELSE Len(text) + 1
              IN  <<SubSeq(text, i, j - 1)>> \o (IF j > Len(text) THEN <<>> ELSE rest[j + 1])
        IN  rest[1]
      NotEmpty(part) == part # <<>>
      Pair(part) ==
        LET i == IndexOf(part, "=")
        IN  IF i = 0 THEN [k |-> decode(part), v |-> <<>>]
            ELSE [k |-> decode(SubSeq(part, 1, i - 1)),
                  v |-> decode(SubSeq(part, i + 1, Len(part)))]
      Pairs(parts) == [i \in DOMAIN parts |-> Pair(parts[i])]
  IN  CHOOSE r \in {Pairs(parts) : parts \in {SelectSeq(Split, NotEmpty)}} : TRUE

\* URLSearchParams.get(name): the first value under name, or null
get(params, name) ==
  IF \E i \in DOMAIN params : params[i].k = name
  THEN Some(params[CHOOSE i \in DOMAIN params :
                     /\ params[i].k = name
                     /\ \A j \in 1..(i - 1) : params[j].k # name].v)
  ELSE Null

\* URLSearchParams.set(name, value) on pairs without that name
set(params, name, value) == Append(params, [k |-> name, v |-> value])

\* URLSearchParams.toString()
RECURSIVE toString(_)
toString(params) ==
  IF params = <<>> THEN <<>>
  ELSE LET p == Head(params)
           one == encode(p.k) \o <<"=">> \o encode(p.v)
       IN  IF Len(params) = 1 THEN one ELSE one \o <<"&">> \o toString(Tail(params))

ALLOWED_STATUS == {<<"a", "l", "l">>,
                   <<"a", "c", "t", "i", "v", "e">>,
                   <<"c", "o", "m", "p", "l", "e", "t", "e", "d">>}
ALLOWED_SORT == {<<"a", "c", "t", "i", "v", "e", "F", "i", "r", "s", "t">>,
                 <<"c", "o", "m", "p", "l", "e", "t", "e", "d", "F", "i", "r", "s", "t">>,
                 <<"a", "z">>,
                 <<"z", "a">>}
ALLOWED_PAGE_SIZES == {Whole(10), Whole(20), Whole(50)}

StatusAll == <<"a", "l", "l">>
StatusActive == <<"a", "c", "t", "i", "v", "e">>
StatusCompleted == <<"c", "o", "m", "p", "l", "e", "t", "e", "d">>
SortActiveFirst == <<"a", "c", "t", "i", "v", "e", "F", "i", "r", "s", "t">>
SortCompletedFirst == <<"c", "o", "m", "p", "l", "e", "t", "e", "d", "F", "i", "r", "s", "t">>
SortAZ == <<"a", "z">>
SortZA == <<"z", "a">>
DefaultPageSize == Whole(10)

\* the names of the query string's keys
KeyQ == <<"q">>
KeyStatus == <<"s", "t", "a", "t", "u", "s">>
KeySort == <<"s", "o", "r", "t">>
KeyPage == <<"p", "a", "g", "e">>
KeyPs == <<"p", "s">>

\* initRef.current(): the initial view parameters read from the location
initRef(params) ==
  LET statusParam == get(params, KeyStatus)
      sortParam == get(params, KeySort)
      pageParam == Number(get(params, KeyPage))
      psParam == Number(get(params, KeyPs))
      qParam == get(params, KeyQ)
  IN  [q |-> IF qParam.some THEN qParam.v ELSE <<>>,
       status |-> IF statusParam.some /\ statusParam.v \in ALLOWED_STATUS
                  THEN statusParam.v ELSE StatusAll,
       sort |-> IF sortParam.some /\ sortParam.v \in ALLOWED_SORT
                THEN sortParam.v ELSE SortActiveFirst,
       page |-> IF pageParam.finite /\ pageParam.v >= Whole(1) THEN pageParam.v ELSE Whole(1),
       pageSize |-> IF psParam.finite /\ psParam.v \in ALLOWED_PAGE_SIZES
                    THEN psParam.v ELSE DefaultPageSize]

(***************************************************************************)
(* State                                                                   *)
(***************************************************************************)
VARIABLES
  server,        \* the remote collection (GET /todos returns it)
  cache,         \* query data of ["todos"]
  hasData,       \* FALSE while the query data is undefined
  fetch,         \* the query's fetch: idle, pending (sent) or served
  muts,          \* updateMutation runs that have not settled
  bulks,         \* bulkComplete runs with calls in flight
  reqs,          \* delete requests, indexed by their timer handle
  timers,        \* pendingDeleteTimers.current: key -> timer handle
  selected,      \* keys of the selected rows
  deleteTarget,  \* the delete modal's todo
  editTarget,    \* the edit modal's todo
  creates,       \* createMutation runs that have not settled
  nextId,        \* the identifier the server assigns to the next created item
  toasts,        \* notifications emitted by the last step
  ops,           \* mutating operations started so far
  refreshes      \* manual refreshes started so far

vars == <<server, cache, hasData, fetch, muts, bulks, reqs, timers, selected,
          deleteTarget, editTarget, creates, nextId, toasts, ops, refreshes>>

VARIABLES
  search,          \* the search box
  debouncedSearch, \* useDebouncedValue(search, 200)
  status,          \* status filter
  sort,            \* sort mode
  page,            \* page state
  pageSize,        \* page size
  pageInput,       \* the page box
  sp,              \* the location's query string (useSearchParams)
  session,         \* sessionStorage["todos_search"]
  filteredAndSorted, \* the useMemo of the filtered and sorted list
  reloaded,        \* the effects that are due are those of the mount after a reload
  due              \* effects whose dependencies changed in the last render

\* useDebouncedValue(search, 200): the delay in milliseconds
Delay == 200

\* the longest stretch of time, in milliseconds, that passes in one step
Quantum == 100

\* useDebouncedValue: the window.setTimeout calls not yet run or cleared
\* (handle, milliseconds left, the value the callback closes over), the handle
\* the effect's cleanup holds, and the milliseconds since the raw text last
\* changed, counted up to Delay
VARIABLES debounceTimers, debounceId, quiet

timeVars == <<debounceTimers, debounceId, quiet>>

viewVars == <<search, debouncedSearch, status, sort, page, pageSize, pageInput,
              sp, session, filteredAndSorted, reloaded, due, timeVars>>

\* the view before the page is opened (the create form is shown)
InitialView ==
  /\ search = <<>>
  /\ debouncedSearch = <<>>
  /\ status = StatusAll
  /\ sort = SortActiveFirst
  /\ page = Whole(1)
  /\ pageSize = DefaultPageSize
  /\ pageInput = String(Whole(1))
  /\ sp = <<>>
  /\ session = <<>>
  /\ filteredAndSorted = <<>>
  /\ reloaded = FALSE
  /\ due = {}
  /\ debounceTimers = {}
  /\ debounceId = 0
  /\ quiet = 0

NoTodo == [open |-> FALSE, todo |-> Todo(NumId(0), <<>>, FALSE)]
Target(t) == [open |-> TRUE, todo |-> t]

IdleFetch == [st |-> "idle", data |-> <<>>]
PendingFetch == [st |-> "pending", data |-> <<>>]

Note(kind, op) == [kind |-> kind, op |-> op]

Init ==
  /\ server = InitialServer
  /\ cache = <<>>
  /\ hasData = FALSE
  /\ fetch = PendingFetch
  /\ muts = <<>>
  /\ bulks = <<>>
  /\ reqs = <<>>
  /\ timers = {}
  /\ selected = {}
  /\ deleteTarget = NoTodo
  /\ editTarget = NoTodo
  /\ creates = <<>>
  /\ nextId = FirstNewId
  /\ toasts = <<>>
  /\ ops = 0
  /\ refreshes = 0
  /\ InitialView

RemoveAt(seq, i) == SubSeq(seq, 1, i - 1) \o SubSeq(seq, i + 1, Len(seq))

\* const todos = data ?? []
todos == IF hasData THEN cache ELSE <<>>

\* updateMutation.isPending: the observer's current mutation has not settled
isBusy == \E i \in DOMAIN muts : muts[i].cur

isFetching == fetch.st # "idle"

\* an open Modal covers the page with its backdrop (fixed inset-0, z-50):
\* the page's own controls cannot be clicked until the modal is closed
modalOpen == deleteTarget.open \/ editTarget.open

PruneKeep(sel, has, data) == sel

\* the effect "listede olmayan secimi temizle": keys without a row are dropped
PruneSelected(sel, has, data) ==
  IF sel = {} THEN sel ELSE sel \cap Keys(IF has THEN data ELSE <<>>)

\* selectedTodos: the selected keys resolved against todos
selectedTodos ==
  LET Sel(t) == toKey(t.id) \in selected
  IN  IF selected = {} THEN <<>> ELSE SelectSeq(todos, Sel)

\* queryClient.invalidateQueries: the query is refetched, a fetch in flight is
\* cancelled and restarted
invalidateQueries(f) == PendingFetch

\* queryClient.cancelQueries
cancelQueries(f) == IdleFetch

(***************************************************************************)
(* The remote collection                                                   *)
(***************************************************************************)
ServerHas(srv, id) == toKey(id) \in Keys(srv)

\* PATCH /todos/:id and PUT /todos/:id: the stored item takes the title and
\* the completed flag that were sent
ServerUpdate(srv, input) ==
  [i \in DOMAIN srv |->
     IF toKey(srv[i].id) = toKey(input.id)
     THEN Todo(srv[i].id, input.title, input.completed)
     ELSE srv[i]]

\* res.data of a successful update
ServerItem(srv, id) == srv[CHOOSE i \in DOMAIN srv : toKey(srv[i].id) = toKey(id)]

\* DELETE /todos/:id
ServerDelete(srv, id) ==
  LET Keep(t) == toKey(t.id) # toKey(id)
  IN  SelectSeq(srv, Keep)

(***************************************************************************)
(* The query: first load, refresh, refetch after invalidation              *)
(***************************************************************************)
\* onRefresh (the button is disabled while isFetching)
OnRefresh ==
  /\ ~modalOpen
  /\ hasData
  /\ ~isFetching
  /\ refreshes < MaxRefresh
  /\ refreshes' = refreshes + 1
  /\ fetch' = PendingFetch
  /\ toasts' = <<Note("loading", "refresh")>>
  /\ UNCHANGED <<server, cache, hasData, muts, bulks, reqs, timers, selected,
                 deleteTarget, editTarget, creates, nextId, ops>>

\* the server answers GET /todos with its collection of that moment
FetchServe ==
  /\ fetch.st = "pending"
  /\ fetch' = [fetch EXCEPT !.st = "served", !.data = server]
  /\ toasts' = <<>>
  /\ UNCHANGED <<server, cache, hasData, muts, bulks, reqs, timers, selected,
                 deleteTarget, editTarget, creates, nextId, ops, refreshes>>

\* the response arrives: the query data is replaced
FetchArrive ==
  /\ fetch.st = "served"
  /\ cache' = fetch.data
  /\ hasData' = TRUE
  /\ fetch' = IdleFetch
  /\ selected' = PruneSelected(selected, TRUE, fetch.data)
  /\ toasts' = <<>>
  /\ UNCHANGED <<server, muts, bulks, reqs, timers, deleteTarget, editTarget,
                 creates, nextId, ops, refreshes>>

\* the fetch fails for good (after its retry): the data is kept
FetchFail ==
  /\ fetch.st # "idle"
  /\ fetch' = IdleFetch
  /\ toasts' = <<>>
  /\ UNCHANGED <<server, cache, hasData, muts, bulks, reqs, timers, selected,
                 deleteTarget, editTarget, creates, nextId, ops, refreshes>>

(***************************************************************************)
(* updateMutation: toggle and title edit                                   *)
(***************************************************************************)
\* onMutate: const prev = queryClient.getQueryData(["todos"]), read before
\* the optimistic write
onMutateSnapshot(old, next) == old

\* onMutate: the optimistic write
onMutateWrite(has, old, next) == IF has THEN ReplaceById(old, next) ELSE old

onErrorKeep(m, old) == old

\* onError: if (ctx?.prev) queryClient.setQueryData(["todos"], ctx.prev)
onErrorCache(m, old) == IF m.hasPrev THEN m.prev ELSE old

\* an onSuccess that also inserts the item when the cache does not hold it
onSuccessUpsert(has, old, serverTodo) ==
  IF ~has THEN old
  ELSE IF \E i \in DOMAIN old : old[i].id = serverTodo.id THEN ReplaceById(old, serverTodo)
  ELSE <<serverTodo>> \o old

\* onSuccess: old.map((t) => (t.id === serverTodo.id ? serverTodo : t))
onSuccessCache(has, old, serverTodo) == IF has THEN ReplaceById(old, serverTodo) ELSE old

\* a bulkComplete that has not resolved holds the item of an update that starts
\* (kept in the records for the properties: `met`)
Overlaps(rec, nextTodo) == ~rec.rejected /\ toKey(nextTodo.id) \in Keys(rec.items)

\* updateMutation.mutate(nextTodo): the observer takes the new mutation as its
\* current one; onMutate cancels the fetch, snapshots and writes
Mutate(nextTodo, kind) ==
  /\ muts' = Append([i \in DOMAIN muts |-> [muts[i] EXCEPT !.cur = FALSE]],
                    [vars |-> nextTodo,
                     kind |-> kind,
                     prev |-> onMutateSnapshot(cache, nextTodo),
                     hasPrev |-> hasData,
                     orig |-> cache,
                     met |-> \E b \in DOMAIN bulks : Overlaps(bulks[b], nextTodo),
                     cur |-> TRUE])
  /\ bulks' = [b \in DOMAIN bulks |->
                 IF Overlaps(bulks[b], nextTodo)
                 THEN [bulks[b] EXCEPT !.met = @ \cup {toKey(nextTodo.id)}]
                 ELSE bulks[b]]
  /\ cache' = onMutateWrite(hasData, cache, nextTodo)
  /\ fetch' = cancelQueries(fetch)
  /\ selected' = PruneSelected(selected, hasData, cache')
  /\ ops' = ops + 1

\* onToggle(t)
OnToggle(t) ==
  /\ ~modalOpen
  /\ hasData
  /\ ~isBusy
  /\ ops < MaxOps
  /\ Mutate([t EXCEPT !.completed = ~t.completed], "toggle")
  /\ toasts' = <<>>
  /\ UNCHANGED <<server, hasData, reqs, timers, deleteTarget, editTarget,
                 creates, nextId, refreshes>>

\* onAskEdit(t)
OnAskEdit(t) ==
  /\ ops < MaxOps
  /\ ~modalOpen
  /\ hasData
  /\ ~isBusy
  /\ editTarget' = Target(t)
  /\ toasts' = <<>>
  /\ UNCHANGED <<server, cache, hasData, fetch, muts, bulks, reqs, timers, selected,
                 deleteTarget, creates, nextId, ops, refreshes>>

\* the edit modal's onClose and its "Vazgec" button
OnCancelEdit ==
  /\ editTarget.open
  /\ editTarget' = NoTodo
  /\ toasts' = <<>>
  /\ UNCHANGED <<server, cache, hasData, fetch, muts, bulks, reqs, timers, selected,
                 deleteTarget, creates, nextId, ops, refreshes>>

\* onConfirmEdit with editTitle = typed: a title shorter than 3 is refused
OnConfirmEditShort(typed) ==
  /\ editTarget.open
  /\ Len(trim(typed)) < 3
  /\ toasts' = <<Note("error", "validation")>>
  /\ UNCHANGED <<server, cache, hasData, fetch, muts, bulks, reqs, timers, selected,
                 deleteTarget, editTarget, creates, nextId, ops, refreshes>>

\* onConfirmEdit with editTitle = typed: the update is started
OnConfirmEdit(typed) ==
  /\ editTarget.open
  /\ Len(trim(typed)) >= 3
  /\ ops < MaxOps
  /\ Mutate([editTarget.todo EXCEPT !.title = trim(typed)], "edit")
  /\ editTarget' = NoTodo
  /\ toasts' = <<>>
  /\ UNCHANGED <<server, hasData, reqs, timers, deleteTarget, creates,
                 nextId, refreshes>>

\* an update that gives up when the PATCH fails
updateNoFallback(patchOk, putOk) == [verbs |-> <<"PATCH">>, ok |-> patchOk]

\* updateTodoRobust(input) against a server that answers PATCH with patchOk
\* and PUT with putOk: the requests it sends and whether it resolves
updateTodoRobust(patchOk, putOk) ==
  IF patchOk
  THEN [verbs |-> <<"PATCH">>, ok |-> TRUE]
  ELSE [verbs |-> <<"PATCH", "PUT">>, ok |-> putOk]

\* the answers a server can give to an update of input: it can apply the
\* update only to an item it holds, and any request may fail in transport
Answers(srv, id) == IF ServerHas(srv, id) THEN BOOLEAN ELSE {FALSE}

\* updateMutation's mutationFn resolves with res.data: onSuccess.  A PATCH that
\* fails changes nothing, so the run is taken in one step when it settles.
UpdateOk(i, patchOk, putOk) ==
  /\ i \in DOMAIN muts
  /\ updateTodoRobust(patchOk, putOk).ok
  /\ LET m == muts[i]
         srv == ServerUpdate(server, m.vars)
         serverTodo == ServerItem(srv, m.vars.id)
     IN  /\ server' = srv
         /\ cache' = onSuccessCache(hasData, cache, serverTodo)
         /\ selected' = PruneSelected(selected, hasData, cache')
         /\ toasts' = <<Note("success", "update")>>
         /\ fetch' = invalidateQueries(fetch)
         /\ muts' = RemoveAt(muts, i)
  /\ UNCHANGED <<hasData, bulks, reqs, timers, deleteTarget, editTarget,
                 creates, nextId, ops, refreshes>>

\* updateMutation's mutationFn rejects (PATCH and PUT both failed): onError
UpdateFail(i, patchOk, putOk) ==
  /\ i \in DOMAIN muts
  /\ ~updateTodoRobust(patchOk, putOk).ok
  /\ cache' = onErrorCache(muts[i], cache)
  /\ selected' = PruneSelected(selected, hasData, cache')
  /\ toasts' = <<Note("error", "update")>>
  /\ muts' = RemoveAt(muts, i)
  /\ UNCHANGED <<server, hasData, fetch, bulks, reqs, timers, deleteTarget,
                 editTarget, creates, nextId, ops, refreshes>>

(***************************************************************************)
(* Selection                                                               *)
(***************************************************************************)
\* the row checkbox of a rendered item
OnToggleSelect(t) ==
  /\ ops < MaxOps
  /\ ~modalOpen
  /\ hasData
  /\ LET k == toKey(t.id)
     IN  selected' = IF k \in selected THEN selected \ {k} ELSE selected \cup {k}
  /\ toasts' = <<>>
  /\ UNCHANGED <<server, cache, hasData, fetch, muts, bulks, reqs, timers,
                 deleteTarget, editTarget, creates, nextId, ops, refreshes>>

\* the "clear" button: setSelected({}) (disabled when nothing is selected)
OnClearSelection ==
  /\ ops < MaxOps
  /\ ~modalOpen
  /\ selected # {}
  /\ selected' = {}
  /\ toasts' = <<>>
  /\ UNCHANGED <<server, cache, hasData, fetch, muts, bulks, reqs, timers,
                 deleteTarget, editTarget, creates, nextId, ops, refreshes>>

(***************************************************************************)
(* bulkComplete                                                            *)
(***************************************************************************)
\* selectedTodos.filter((t) => !t.completed)
BulkItems ==
  LET Active(t) == ~t.completed
  IN  SelectSeq(selectedTodos, Active)

\* the optimistic write of bulkComplete
bulkWrite(old, items) ==
  [i \in DOMAIN old |->
     IF toKey(old[i].id) \in Keys(items) THEN [old[i] EXCEPT !.completed = TRUE] ELSE old[i]]

\* bulkComplete with nothing to complete (the button is disabled when nothing
\* is selected or an update is pending)
BulkCompleteNothing ==
  /\ ~modalOpen
  /\ selected # {}
  /\ ~isBusy
  /\ BulkItems = <<>>
  /\ toasts' = <<Note("plain", "bulkComplete")>>
  /\ UNCHANGED <<server, cache, hasData, fetch, muts, bulks, reqs, timers, selected,
                 deleteTarget, editTarget, creates, nextId, ops, refreshes>>

\* bulkComplete: snapshot, optimistic write, one updateTodoRobust per item
BulkComplete ==
  /\ ~modalOpen
  /\ selected # {}
  /\ ~isBusy
  /\ BulkItems # <<>>
  /\ ops < MaxOps
  /\ bulks' = Append(bulks, [items |-> BulkItems,
                             prev |-> cache,
                             hasPrev |-> hasData,
                             calls |-> [i \in DOMAIN BulkItems |-> "sent"],
                             met |-> {},
                             rejected |-> FALSE])
  /\ cache' = IF hasData THEN bulkWrite(cache, BulkItems) ELSE cache
  /\ selected' = PruneSelected(selected, hasData, cache')
  /\ toasts' = <<Note("loading", "bulkComplete")>>
  /\ ops' = ops + 1
  /\ UNCHANGED <<server, hasData, fetch, muts, reqs, timers, deleteTarget,
                 editTarget, creates, nextId, refreshes>>

\* the record of a bulkComplete is dropped once none of its calls is in flight
BulksAfter(b, rec) ==
  IF \E i \in DOMAIN rec.calls : rec.calls[i] = "sent"
  THEN [bulks EXCEPT ![b] = rec] ELSE RemoveAt(bulks, b)

\* catch { if (prev) queryClient.setQueryData(["todos"], prev) }
bulkCatch(rec, old) == IF rec.hasPrev THEN rec.prev ELSE old

\* one updateTodoRobust of a bulkComplete resolves; when it is the last one,
\* Promise.all resolves: invalidate, clear the selection
BulkCallOk(b, i, patchOk, putOk) ==
  /\ b \in DOMAIN bulks
  /\ i \in DOMAIN bulks[b].calls
  /\ bulks[b].calls[i] = "sent"
  /\ updateTodoRobust(patchOk, putOk).ok
  /\ LET rec == [bulks[b] EXCEPT !.calls[i] = "ok"]
         input == [bulks[b].items[i] EXCEPT !.completed = TRUE]
         allOk == \A j \in DOMAIN rec.calls : rec.calls[j] = "ok"
     IN  /\ server' = ServerUpdate(server, input)
         /\ bulks' = BulksAfter(b, rec)
         /\ IF allOk
            THEN /\ fetch' = invalidateQueries(fetch)
                 /\ selected' = {}
                 /\ toasts' = <<Note("success", "bulkComplete")>>
            ELSE /\ toasts' = <<>>
                 /\ UNCHANGED <<fetch, selected>>
  /\ UNCHANGED <<cache, hasData, muts, reqs, timers, deleteTarget, editTarget,
                 creates, nextId, ops, refreshes>>

\* one updateTodoRobust rejects: Promise.all rejects on the first rejection,
\* the catch block rolls back; later rejections are ignored
BulkCallFail(b, i, patchOk, putOk) ==
  /\ b \in DOMAIN bulks
  /\ i \in DOMAIN bulks[b].calls
  /\ bulks[b].calls[i] = "sent"
  /\ ~updateTodoRobust(patchOk, putOk).ok
  /\ LET rec == [bulks[b] EXCEPT !.calls[i] = "fail", !.rejected = TRUE]
     IN  /\ bulks' = BulksAfter(b, rec)
         /\ IF bulks[b].rejected
            THEN /\ toasts' = <<>>
                 /\ UNCHANGED <<cache, selected>>
            ELSE /\ cache' = bulkCatch(bulks[b], cache)
                 /\ selected' = PruneSelected(selected, hasData, cache')
                 /\ toasts' = <<Note("error", "bulkComplete")>>
  /\ UNCHANGED <<server, hasData, fetch, muts, reqs, timers, deleteTarget,
                 editTarget, creates, nextId, ops, refreshes>>

(***************************************************************************)
(* Deferred delete with undo                                               *)
(***************************************************************************)
\* pendingDeleteTimers.current as a set of entries, one per key
HasTimer(map, key) == \E e \in map : e.key = key
TimerOf(map, key) == (CHOOSE e \in map : e.key = key).h
DeleteTimer(map, key) == {e \in map : e.key # key}
SetTimer(map, key, h) == DeleteTimer(map, key) \cup {[key |-> key, h |-> h]}

BulkPrefix == <<"b", "u", "l", "k", "-">>

\* `bulk-${Date.now()}`
bulkKey(ms) == BulkPrefix \o Digits(ms)

\* deleteWithUndo and bulkDeleteWithUndo from "removeFromCache" on: the items
\* leave the cache, the timer is started and stored under key, the undo toast
\* is shown
ArmDelete(key, items, indices) ==
  /\ cache' = IF hasData
              THEN removeFromCache(cache, [i \in DOMAIN items |-> items[i].id])
              ELSE cache
  /\ reqs' = Append(reqs, [key |-> key,
                           items |-> items,
                           indices |-> indices,
                           timer |-> "armed",
                           toast |-> "shown",
                           calls |-> <<>>,
                           orig |-> todos,
                           sel |-> selected \cap Keys(items),
                           undone |-> FALSE])
  /\ timers' = SetTimer(timers, key, Len(reqs) + 1)
  /\ toasts' = <<Note("undo", "delete")>>
  /\ ops' = ops + 1

\* onAskDelete(t)
OnAskDelete(t) ==
  /\ ops < MaxOps
  /\ ~modalOpen
  /\ hasData
  /\ ~isBusy
  /\ deleteTarget' = Target(t)
  /\ toasts' = <<>>
  /\ UNCHANGED <<server, cache, hasData, fetch, muts, bulks, reqs, timers, selected,
                 editTarget, creates, nextId, ops, refreshes>>

\* the delete modal's onClose and its "Vazgec" button
OnCancelDelete ==
  /\ deleteTarget.open
  /\ deleteTarget' = NoTodo
  /\ toasts' = <<>>
  /\ UNCHANGED <<server, cache, hasData, fetch, muts, bulks, reqs, timers, selected,
                 editTarget, creates, nextId, ops, refreshes>>

\* onConfirmDeleteModal: deleteWithUndo(deleteTarget)
OnConfirmDeleteModal ==
  /\ deleteTarget.open
  /\ ops < MaxOps
  /\ LET todo == deleteTarget.todo
         key == toKey(todo.id)
     IN  ArmDelete(key, <<todo>>, <<findIndex(todos, key)>>)
  /\ selected' = PruneSelected(selected, hasData, cache')
  /\ deleteTarget' = NoTodo
  /\ UNCHANGED <<server, hasData, fetch, muts, bulks, editTarget, creates,
                 nextId, refreshes>>

\* bulkDelete (the button is disabled when nothing is selected):
\* bulkDeleteWithUndo(selectedTodos) unless no selected row is in the list
BulkDelete ==
  /\ ~modalOpen
  /\ selected # {}
  /\ IF selectedTodos = <<>>
     THEN /\ toasts' = <<Note("plain", "bulkDelete")>>
          /\ UNCHANGED <<cache, reqs, timers, selected, ops>>
     ELSE /\ ops < MaxOps
          /\ LET items == selectedTodos
                 \* Date.now(): the clock has moved on since the request before
                 now == ClockStart + Len(reqs)
             IN  ArmDelete(bulkKey(now), items,
                           [i \in DOMAIN items |-> findIndex(todos, toKey(items[i].id))])
          /\ selected' = {}
  /\ UNCHANGED <<server, hasData, fetch, muts, bulks, deleteTarget, editTarget,
                 creates, nextId, refreshes>>

\* doDeferredDelete: items.filter((t) => !isTempId(t.id)), one DELETE each
deferredCalls(items) ==
  LET Real(t) == ~isTempId(t.id)
      real == SelectSeq(items, Real)
  IN  [i \in DOMAIN real |-> [id |-> real[i].id, st |-> "sent"]]

\* the timer of request h elapses: the entry under its key is deleted and
\* doDeferredDelete issues the remote deletes
TimerFire(h) ==
  /\ h \in DOMAIN reqs
  /\ reqs[h].timer = "armed"
  /\ timers' = DeleteTimer(timers, reqs[h].key)
  /\ reqs' = [reqs EXCEPT ![h].timer = "fired", ![h].calls = deferredCalls(reqs[h].items)]
  /\ toasts' = <<>>
  /\ UNCHANGED <<server, cache, hasData, fetch, muts, bulks, selected, deleteTarget,
                 editTarget, creates, nextId, ops, refreshes>>

Settled(calls) == \A i \in DOMAIN calls : calls[i].st # "sent"
Failed(calls) == Cardinality({i \in DOMAIN calls : calls[i].st = "failed"})

settleQuiet(calls, f) == f

\* doDeferredDelete after Promise.allSettled: if (failed > 0) invalidate
settleFetch(calls, f) == IF Failed(calls) > 0 THEN invalidateQueries(f) ELSE f

\* doDeferredDelete after Promise.allSettled: if (failed > 0) toast.error
settleNotes(calls) ==
  IF Failed(calls) > 0 THEN <<Note("error", "delete")>> ELSE <<>>

\* one DELETE of request h settles; the last one resumes doDeferredDelete
DeleteSettles(h, i, st) ==
  LET calls == [reqs[h].calls EXCEPT ![i].st = st]
  IN  /\ reqs' = [reqs EXCEPT ![h].calls = calls]
      /\ IF Settled(calls)
         THEN /\ fetch' = settleFetch(calls, fetch)
              /\ toasts' = settleNotes(calls)
         ELSE /\ toasts' = <<>>
              /\ UNCHANGED fetch
      /\ UNCHANGED <<cache, hasData, muts, bulks, timers, selected, deleteTarget,
                     editTarget, creates, nextId, ops, refreshes>>

DeleteOk(h, i) ==
  /\ h \in DOMAIN reqs
  /\ i \in DOMAIN reqs[h].calls
  /\ reqs[h].calls[i].st = "sent"
  /\ ServerHas(server, reqs[h].calls[i].id)
  /\ server' = ServerDelete(server, reqs[h].calls[i].id)
  /\ DeleteSettles(h, i, "ok")

DeleteFail(h, i) ==
  /\ h \in DOMAIN reqs
  /\ i \in DOMAIN reqs[h].calls
  /\ reqs[h].calls[i].st = "sent"
  /\ UNCHANGED server
  /\ DeleteSettles(h, i, "failed")

\* the undo callback: the timer stored under the request's key is cleared
undoTimers(map, key) == IF HasTimer(map, key) THEN DeleteTimer(map, key) ELSE map

\* the "Geri al" button of request h's toast: onUndo(), toast.dismiss
Undo(h) ==
  /\ h \in DOMAIN reqs
  /\ reqs[h].toast = "shown"
  /\ LET r == reqs[h]
         cleared == IF HasTimer(timers, r.key) THEN {TimerOf(timers, r.key)} ELSE {}
     IN  /\ reqs' = [g \in DOMAIN reqs |->
                       [reqs[g] EXCEPT
                          !.timer = IF g \in cleared /\ @ = "armed" THEN "cleared" ELSE @,
                          !.toast = IF g = h THEN "gone" ELSE @,
                          !.undone = IF g = h /\ reqs[g].timer # "fired" THEN TRUE ELSE @]]
         /\ timers' = undoTimers(timers, r.key)
         /\ cache' = restoreIntoCache(todos, r.items, r.indices)
  /\ hasData' = TRUE
  /\ selected' = PruneSelected(selected, TRUE, cache')
  /\ toasts' = <<Note("success", "undo")>>
  /\ UNCHANGED <<server, fetch, muts, bulks, deleteTarget, editTarget, creates,
                 nextId, ops, refreshes>>

\* the undo toast of a fired request disappears (duration 5000, started after
\* the timer)
ToastExpire(h) ==
  /\ h \in DOMAIN reqs
  /\ reqs[h].toast = "shown"
  /\ reqs[h].timer = "fired"
  /\ reqs' = [reqs EXCEPT ![h].toast = "gone"]
  /\ toasts' = <<>>
  /\ UNCHANGED <<server, cache, hasData, fetch, muts, bulks, timers, selected,
                 deleteTarget, editTarget, creates, nextId, ops, refreshes>>

(***************************************************************************)
(* createMutation (NewTodo)                                                *)
(***************************************************************************)
\* onSubmit: createMutation.mutateAsync({ title }) under toast.promise
OnSubmit(title) ==
  /\ ~modalOpen
  /\ ops < MaxOps
  /\ creates' = Append(creates, [title |-> title, st |-> "sent",
                                 item |-> Todo(NumId(0), <<>>, FALSE)])
  /\ toasts' = <<Note("loading", "create")>>
  /\ ops' = ops + 1
  /\ UNCHANGED <<server, cache, hasData, fetch, muts, bulks, reqs, timers, selected,
                 deleteTarget, editTarget, nextId, refreshes>>

\* POST /todos { title, completed: false }: the server stores the item under
\* an identifier of its own
CreateServe(c) ==
  /\ c \in DOMAIN creates
  /\ creates[c].st = "sent"
  /\ LET item == Todo(NumId(nextId), creates[c].title, FALSE)
     IN  /\ server' = Append(server, item)
         /\ creates' = [creates EXCEPT ![c].st = "served", ![c].item = item]
  /\ nextId' = nextId + 1
  /\ toasts' = <<>>
  /\ UNCHANGED <<cache, hasData, fetch, muts, bulks, reqs, timers, selected,
                 deleteTarget, editTarget, ops, refreshes>>

createAlways(has, old, newTodo) == IF has THEN <<newTodo>> \o old ELSE <<newTodo>>

\* createMutation.onSuccess: the updater given to setQueryData
createInsert(has, old, newTodo) ==
  IF ~has THEN <<newTodo>>
  ELSE IF \E i \in DOMAIN old : old[i].id = newTodo.id THEN old
  ELSE <<newTodo>> \o old

\* the response arrives: onSuccess, and toast.promise reports success
CreateOk(c) ==
  /\ c \in DOMAIN creates
  /\ creates[c].st = "served"
  /\ cache' = createInsert(hasData, cache, creates[c].item)
  /\ hasData' = TRUE
  /\ selected' = PruneSelected(selected, TRUE, cache')
  /\ creates' = RemoveAt(creates, c)
  /\ toasts' = <<Note("success", "create"), Note("success", "create")>>
  /\ UNCHANGED <<server, fetch, muts, bulks, reqs, timers, deleteTarget,
                 editTarget, nextId, ops, refreshes>>

\* the request fails: onError, and toast.promise reports the error
CreateFail(c) ==
  /\ c \in DOMAIN creates
  /\ creates[c].st = "sent"
  /\ creates' = RemoveAt(creates, c)
  /\ toasts' = <<Note("error", "create"), Note("error", "create")>>
  /\ UNCHANGED <<server, cache, hasData, fetch, muts, bulks, reqs, timers, selected,
                 deleteTarget, editTarget, nextId, ops, refreshes>>

(***************************************************************************)
(* The view: projection, pagination, effects, URL and session mirror       *)
(***************************************************************************)
\* a.localeCompare(b, "tr") on the characters the model uses: the strings are
\* compared by primary weights (blank and punctuation before letters, upper
\* and lower case alike), then by case (lower case before upper case)
localeCompare(a, b) ==
  LET Primary(c) ==
        IF c = " " THEN 0
        ELSE IF c = "&" THEN 1
        ELSE IF c \in {"a", "A"} THEN 2
        ELSE IF c \in {"b", "B"} THEN 3
        ELSE IF c \in {"x", "y", "z"} THEN 4
        ELSE 5
      Tertiary(c) == IF c \in {"A", "B"} THEN 1 ELSE 0
      W(c, level) == IF level = 1 THEN Primary(c) ELSE Tertiary(c)
      CompareBy(level) ==
        LET from[i \in 1..(Len(a) + 1)] ==
              IF i > Len(a) /\ i > Len(b) THEN 0
              ELSE IF i > Len(a) THEN -1
              ELSE IF i > Len(b) THEN 1
              ELSE IF W(a[i], level) < W(b[i], level) THEN -1
              ELSE IF W(a[i], level) > W(b[i], level) THEN 1
              ELSE from[i + 1]
        IN  from[1]
  IN  CHOOSE r \in {IF c # 0 THEN c ELSE CompareBy(2) : c \in {CompareBy(1)}} : TRUE

\* the comparator copy.sort is given under each sort mode
compare(mode, a, b) ==
  LET Flag(c) == IF c THEN 1 ELSE 0   \* Number(completed)
  IN  IF mode = SortAZ THEN localeCompare(a.title, b.title)
      ELSE IF mode = SortZA THEN localeCompare(b.title, a.title)
      ELSE IF mode = SortCompletedFirst THEN Flag(b.completed) - Flag(a.completed)
      ELSE Flag(a.completed) - Flag(b.completed)

\* a sort that puts items which compare equal in reverse order
sortReversed(items, mode) ==
  LET place(v, i) ==
        Cardinality({j \in DOMAIN v :
                       \E c \in {compare(mode, v[j], v[i])} : c < 0 \/ (c = 0 /\ j > i)}) + 1
      Sorted(v, pl) == [k \in DOMAIN v |-> v[CHOOSE i \in DOMAIN v : pl[i] = k]]
      Places(v) == <<>> \o [i \in DOMAIN v |-> place(v, i)]
  IN  CHOOSE r \in UNION {{Sorted(v, pl) : pl \in {Places(v)}} : v \in {items}} : TRUE

\* copy.sort(comparator). Array.prototype.sort is stable: v[i] comes after the
\* items that compare less, and after those that compare equal and came
\* before it. The array is taken once, each item's place is computed once.
sortBy(items, mode) ==
  LET place(v, i) ==
        Cardinality({j \in DOMAIN v :
                       \E c \in {compare(mode, v[j], v[i])} : c < 0 \/ (c = 0 /\ j < i)}) + 1
      Sorted(v, pl) == [k \in DOMAIN v |-> v[CHOOSE i \in DOMAIN v : pl[i] = k]]
      Places(v) == <<>> \o [i \in DOMAIN v |-> place(v, i)]
  IN  CHOOSE r \in UNION {{Sorted(v, pl) : pl \in {Places(v)}} : v \in {items}} : TRUE

\* filteredAndSorted for given inputs: the status filter, the search filter,
\* the sort of a copy
project(items, text, st, mode) ==
  LET q == toLowerCase(trim(text))
      ByStatus(t) == IF st = StatusActive THEN ~t.completed
                     ELSE IF st = StatusCompleted THEN t.completed
                     ELSE TRUE
      BySearch(t) == q = <<>> \/ includes(toLowerCase(t.title), q)
  IN  sortBy(SelectSeq(SelectSeq(items, ByStatus), BySearch), mode)

\* Array.prototype.slice(from, to) with from, to numbers that are not negative
slice(items, from, to) ==
  LET a == from \div Tenth
      b == IF to \div Tenth < Len(items) THEN to \div Tenth ELSE Len(items)
  IN  SubSeq(items, a + 1, b)

\* the collections the view is shown with
SmallList ==
  <<Todo(NumId(1), <<"a", "b">>, FALSE),
    Todo(NumId(2), <<"A", "b">>, TRUE),
    Todo(NumId(3), <<"a", "b">>, FALSE)>>

LargeLen == 21
LargeActive == 11

LargeList ==
  [n \in 1..LargeLen |->
     Todo(NumId(n),
          IF n % 3 = 0 THEN <<"b", " ", "A">> ELSE IF n % 3 = 1 THEN <<"a", "&", "B">> ELSE <<"A", "b">>,
          n > LargeActive)]

Collections == {SmallList, LargeList}

\* what the user types into the search box
SearchInputs == {<<>>, <<" ", "B", " ">>, <<"a", "&">>}

\* what the user types into the page box
PageInputs == {<<"2", ".", "5">>, <<"x">>, <<"9">>}

\* the query strings the page is opened with
Locations ==
  {<<>>,
   <<"p", "a", "g", "e", "=", "3">>,
   <<"p", "a", "g", "e", "=", "2", ".", "5">>,
   <<"p", "a", "g", "e", "=", "0">>,
   <<"p", "a", "g", "e", "=", "x">>,
   <<"p", "s", "=", "2", "0", "&", "s", "o", "r", "t", "=", "z", "a">>,
   <<"p", "s", "=", "1", "5", "&", "s", "o", "r", "t", "=", "u", "p">>,
   <<"s", "t", "a", "t", "u", "s", "=", "d", "o", "n", "e", "&", "q", "=", "a", "%", "2", "6">>,
   <<"s", "t", "a", "t", "u", "s", "=", "a", "c", "t", "i", "v", "e", "&", "p", "a", "g", "e", "=", "2">>}

\* useMemo: filteredAndSorted is computed again when one of its dependencies
\* [todos, debouncedSearch, status, sort] changed
Render ==
  filteredAndSorted' =
    IF <<todos, debouncedSearch, status, sort>>' = <<todos, debouncedSearch, status, sort>>
    THEN filteredAndSorted
    ELSE project(todos', debouncedSearch', status', sort')

\* Math.max(1, Math.ceil(filteredAndSorted.length / pageSize))
totalPages ==
  LET n == (Len(filteredAndSorted) * Tenth + pageSize - 1) \div pageSize
  IN  Whole(IF n > 1 THEN n ELSE 1)

\* the stored page used as it is
currentPageStored == page

currentPage == clampInt(page, Whole(1), totalPages)

paged ==
  LET start == ((currentPage - Whole(1)) * pageSize) \div Tenth
  IN  slice(filteredAndSorted, start, start + pageSize)

\* the dependency lists of the effects
deps ==
  [reset |-> <<debouncedSearch, status, sort, pageSize>>,
   clamp |-> <<page, currentPage>>,
   input |-> <<currentPage>>,
   url |-> <<search, status, sort, currentPage, pageSize, sp>>,
   debounce |-> <<search>>]

Effects == {"reset", "clamp", "input", "url", "debounce"}

\* an encoding that writes every key
viewParamsAll(text, st, mode, cur, ps) ==
  set(set(set(set(set(<<>>, KeyQ, trim(text)), KeyStatus, st), KeySort, mode),
          KeyPage, String(cur)), KeyPs, String(ps))

\* the view parameters as the URL effect writes them
viewParams(text, st, mode, cur, ps) ==
  LET q == trim(text)
      p1 == IF q # <<>> THEN set(<<>>, KeyQ, q) ELSE <<>>
      p2 == IF st # StatusAll THEN set(p1, KeyStatus, st) ELSE p1
      p3 == IF mode # SortActiveFirst THEN set(p2, KeySort, mode) ELSE p2
      p4 == IF cur # Whole(1) THEN set(p3, KeyPage, String(cur)) ELSE p3
  IN  IF ps # DefaultPageSize THEN set(p4, KeyPs, String(ps)) ELSE p4

\* the state the hooks are initialised with when the page is opened at text
\* (the query string is parsed once, initRef is called once)
Opened(text) ==
  LET State(init) ==
        [search |-> init.q,
         debouncedSearch |-> init.q,
         status |-> init.status,
         sort |-> init.sort,
         page |-> init.page,
         pageSize |-> init.pageSize,
         pageInput |-> String(init.page)]
  IN  CHOOSE o \in {State(init) : init \in {initRef(params) : params \in {URLSearchParams(text)}}} :
        TRUE

\* the part of the state the view does not touch
pageRest == <<server, fetch, muts, bulks, reqs, timers, selected, deleteTarget,
              editTarget, creates, nextId, ops, refreshes>>

\* the effects whose dependencies differ between this render and the next
Changed == {e \in Effects : deps'[e] # deps[e]}

\* the search box's onChange
SetSearch(text) ==
  /\ due = {}
  /\ text # search
  /\ search' = text
  /\ toasts' = <<>>
  /\ UNCHANGED <<debouncedSearch, status, sort, page, pageSize, pageInput, sp, session>>
  /\ UNCHANGED <<cache, hasData, pageRest>>
  /\ Render
  /\ reloaded' = FALSE
  /\ due' = Changed

\* the timer of useDebouncedValue elapses: setDebounced(value)
DebounceFire ==
  /\ due = {}
  /\ debouncedSearch # search
  /\ debouncedSearch' = search
  /\ toasts' = <<>>
  /\ UNCHANGED <<search, status, sort, page, pageSize, pageInput, sp, session>>
  /\ UNCHANGED <<cache, hasData, pageRest>>
  /\ Render
  /\ reloaded' = FALSE
  /\ due' = Changed

\* the status chips and the status select
SetStatus(st) ==
  /\ due = {}
  /\ st # status
  /\ status' = st
  /\ toasts' = <<>>
  /\ UNCHANGED <<search, debouncedSearch, sort, page, pageSize, pageInput, sp, session>>
  /\ UNCHANGED <<cache, hasData, pageRest>>
  /\ Render
  /\ reloaded' = FALSE
  /\ due' = Changed

\* the sort select
SetSort(mode) ==
  /\ due = {}
  /\ mode # sort
  /\ sort' = mode
  /\ toasts' = <<>>
  /\ UNCHANGED <<search, debouncedSearch, status, page, pageSize, pageInput, sp, session>>
  /\ UNCHANGED <<cache, hasData, pageRest>>
  /\ Render
  /\ reloaded' = FALSE
  /\ due' = Changed

\* the page size select
SetPageSize(ps) ==
  /\ due = {}
  /\ ps # pageSize
  /\ pageSize' = ps
  /\ toasts' = <<>>
  /\ UNCHANGED <<search, debouncedSearch, status, sort, page, pageInput, sp, session>>
  /\ UNCHANGED <<cache, hasData, pageRest>>
  /\ Render
  /\ reloaded' = FALSE
  /\ due' = Changed

\* the "reset settings" button
OnResetFilters ==
  /\ due = {}
  /\ search' = <<>>
  /\ status' = StatusAll
  /\ sort' = SortActiveFirst
  /\ toasts' = <<Note("success", "reset")>>
  /\ UNCHANGED <<debouncedSearch, page, pageSize, pageInput, sp, session>>
  /\ UNCHANGED <<cache, hasData, pageRest>>
  /\ Render
  /\ reloaded' = FALSE
  /\ due' = Changed

\* goToPage(p)
goToPage(p) == clampInt(p, Whole(1), totalPages)

\* the buttons first, previous, next, last (disabled at the ends)
PageButtons ==
  (IF currentPage # Whole(1) THEN {Whole(1), currentPage - Whole(1)} ELSE {})
    \cup (IF currentPage # totalPages THEN {currentPage + Whole(1), totalPages} ELSE {})

GoToPage(p) ==
  /\ due = {}
  /\ page' = goToPage(p)
  /\ toasts' = <<>>
  /\ UNCHANGED <<search, debouncedSearch, status, sort, pageSize, pageInput, sp, session>>
  /\ UNCHANGED <<cache, hasData, pageRest>>
  /\ Render
  /\ reloaded' = FALSE
  /\ due' = Changed

\* the page box's onChange
SetPageInput(text) ==
  /\ due = {}
  /\ text # pageInput
  /\ pageInput' = text
  /\ toasts' = <<>>
  /\ UNCHANGED <<search, debouncedSearch, status, sort, page, pageSize, sp, session>>
  /\ UNCHANGED <<cache, hasData, pageRest>>
  /\ Render
  /\ reloaded' = FALSE
  /\ due' = Changed

\* applyPageInput
ApplyPageInput ==
  /\ due = {}
  /\ LET n == Number(Some(pageInput))
     IN  IF ~n.finite
         THEN /\ toasts' = <<Note("error", "page")>>
              /\ pageInput' = String(currentPage)
              /\ UNCHANGED page
         ELSE /\ page' = goToPage((n.v \div Tenth) * Tenth)   \* Math.floor(n)
              /\ toasts' = <<>>
              /\ UNCHANGED pageInput
  /\ UNCHANGED <<search, debouncedSearch, status, sort, pageSize, sp, session>>
  /\ UNCHANGED <<cache, hasData, pageRest>>
  /\ Render
  /\ reloaded' = FALSE
  /\ due' = Changed

\* the query data changes (a fetch arrives, an item is removed or restored)
ViewData(items) ==
  /\ due = {}
  /\ ~hasData \/ items # cache
  /\ cache' = items
  /\ hasData' = TRUE
  /\ toasts' = <<>>
  /\ UNCHANGED <<search, debouncedSearch, status, sort, page, pageSize, pageInput,
                 sp, session>>
  /\ UNCHANGED pageRest
  /\ Render
  /\ reloaded' = FALSE
  /\ due' = Changed

\* the effects of the last render run, in the order of the source: page
\* reset, page clamp, page box, URL and session mirror.  They read the
\* values of that render; their state updates are applied together.
FlushEffects ==
  /\ due # {}
  /\ LET cur == currentPage
         next == toString(viewParams(search, status, sort, cur, pageSize))
         curr == CHOOSE r \in {toString(params) : params \in {URLSearchParams(sp)}} : TRUE
     IN  /\ page' = IF "clamp" \in due /\ page # cur THEN cur
                    ELSE IF "reset" \in due THEN Whole(1)
                    ELSE page
         /\ pageInput' = IF "input" \in due THEN String(cur) ELSE pageInput
         /\ sp' = IF "url" \in due /\ next # curr THEN next ELSE sp
         /\ session' = IF "url" \in due
                       THEN (IF next # <<>> THEN <<"?">> \o next ELSE <<>>)
                       ELSE session
  /\ UNCHANGED <<search, debouncedSearch, status, sort, pageSize>>
  /\ UNCHANGED <<cache, hasData, toasts, pageRest>>
  /\ Render
  /\ reloaded' = FALSE
  /\ due' = Changed

\* the page is loaded again from its own location: every hook is
\* initialised from the query string, every effect runs
Reload ==
  /\ due = {}
  /\ LET o == Opened(sp)
     IN  /\ search' = o.search
         /\ debouncedSearch' = o.debouncedSearch
         /\ status' = o.status
         /\ sort' = o.sort
         /\ page' = o.page
         /\ pageSize' = o.pageSize
         /\ pageInput' = o.pageInput
  /\ toasts' = <<>>
  /\ UNCHANGED <<sp, session, cache, hasData, pageRest>>
  /\ Render
  /\ reloaded' = TRUE
  /\ due' = Effects

\* the page is opened at one of the locations, with the query data of an
\* earlier visit or without data
ViewInit ==
  /\ server = InitialServer
  /\ hasData \in BOOLEAN
  /\ cache \in (IF hasData THEN Collections ELSE {<<>>})
  /\ fetch = IdleFetch
  /\ muts = <<>>
  /\ bulks = <<>>
  /\ reqs = <<>>
  /\ timers = {}
  /\ selected = {}
  /\ deleteTarget = NoTodo
  /\ editTarget = NoTodo
  /\ creates = <<>>
  /\ nextId = FirstNewId
  /\ toasts = <<>>
  /\ ops = 0
  /\ refreshes = 0
  /\ sp \in Locations
  /\ session = <<>>
  /\ due = Effects
  /\ LET o == Opened(sp)
     IN  /\ search = o.search
         /\ debouncedSearch = o.debouncedSearch
         /\ status = o.status
         /\ sort = o.sort
         /\ page = o.page
         /\ pageSize = o.pageSize
         /\ pageInput = o.pageInput
  /\ filteredAndSorted = project(todos, debouncedSearch, status, sort)
  /\ reloaded = FALSE
  /\ debounceTimers = {}
  /\ debounceId = 0
  /\ quiet = 0

ViewNext ==
  \/ \E text \in SearchInputs : SetSearch(text) /\ UNCHANGED timeVars
  \/ DebounceFire /\ UNCHANGED timeVars
  \/ \E st \in ALLOWED_STATUS : SetStatus(st) /\ UNCHANGED timeVars
  \/ \E mode \in ALLOWED_SORT : SetSort(mode) /\ UNCHANGED timeVars
  \/ \E ps \in ALLOWED_PAGE_SIZES : SetPageSize(ps) /\ UNCHANGED timeVars
  \/ OnResetFilters /\ UNCHANGED timeVars
  \/ \E p \in PageButtons : GoToPage(p) /\ UNCHANGED timeVars
  \/ \E text \in PageInputs : SetPageInput(text) /\ UNCHANGED timeVars
  \/ ApplyPageInput /\ UNCHANGED timeVars
  \/ \E items \in Collections : ViewData(items) /\ UNCHANGED timeVars
  \/ FlushEffects /\ UNCHANGED timeVars
  \/ Reload /\ UNCHANGED timeVars

ViewSpec == ViewInit /\ [][ViewNext]_<<vars, viewVars>>

\* the steps that move the page or change the number of pages
PageNext ==
  \/ \E st \in ALLOWED_STATUS : SetStatus(st) /\ UNCHANGED timeVars
  \/ \E ps \in ALLOWED_PAGE_SIZES : SetPageSize(ps) /\ UNCHANGED timeVars
  \/ \E p \in PageButtons : GoToPage(p) /\ UNCHANGED timeVars
  \/ \E text \in PageInputs : SetPageInput(text) /\ UNCHANGED timeVars
  \/ ApplyPageInput /\ UNCHANGED timeVars
  \/ \E items \in Collections : ViewData(items) /\ UNCHANGED timeVars
  \/ FlushEffects /\ UNCHANGED timeVars
  \/ Reload /\ UNCHANGED timeVars

\* React runs the effects of a render before it handles anything else
ViewFair == ViewInit /\ [][PageNext]_<<vars, viewVars>>
                     /\ WF_<<vars, viewVars>>(FlushEffects /\ UNCHANGED timeVars)

(***************************************************************************)
(* The debounce of the search text, with time                              *)
(***************************************************************************)
\* an effect that sets its timer and never clears the one before
debounceNoCleanup ==
  \E id \in {n \in 0..Cardinality(debounceTimers) :
                \A t \in debounceTimers : t.id # n} :
    /\ debounceTimers' =
         debounceTimers \cup {[id |-> id, left |-> Delay, value |-> search]}
    /\ debounceId' = id

\* useDebouncedValue's effect: the cleanup of the run before it,
\* window.clearTimeout(id), then window.setTimeout(..., delay)
debounceEffect ==
  LET kept == {t \in debounceTimers : t.id # debounceId}
  IN  \E id \in {n \in 0..Cardinality(kept) : \A t \in kept : t.id # n} :
        /\ \A n \in 0..(id - 1) : \E t \in kept : t.id = n
        /\ debounceTimers' =
             kept \cup {[id |-> id, left |-> Delay, value |-> search]}
        /\ debounceId' = id

\* the search box's onChange
TypeSearch(text) ==
  /\ SetSearch(text)
  /\ quiet' = 0
  /\ UNCHANGED <<debounceTimers, debounceId>>

\* the effects of a render, the one of useDebouncedValue among them
FlushTimed ==
  /\ FlushEffects
  /\ IF "debounce" \in due THEN debounceEffect
     ELSE UNCHANGED <<debounceTimers, debounceId>>
  /\ UNCHANGED quiet

\* time passes, up to the moment the next timer is due; a timer that is due
\* runs before more time passes, and so do the effects of a render
Tick ==
  /\ due = {}
  /\ \A t \in debounceTimers : t.left > 0
  /\ \E d \in 1..Quantum :
       /\ \A t \in debounceTimers : d <= t.left
       /\ d = Quantum \/ \E t \in debounceTimers : d = t.left
       /\ debounceTimers' = {[t EXCEPT !.left = @ - d] : t \in debounceTimers}
       /\ quiet' = IF quiet + d > Delay THEN Delay ELSE quiet + d
  /\ UNCHANGED <<vars, debounceId>>
  /\ UNCHANGED <<search, debouncedSearch, status, sort, page, pageSize, pageInput,
                 sp, session, filteredAndSorted, reloaded, due>>

\* a timer of useDebouncedValue elapses: setDebounced(value)
TimerElapses(t) ==
  /\ due = {}
  /\ t \in debounceTimers
  /\ t.left = 0
  /\ debounceTimers' = debounceTimers \ {t}
  /\ debouncedSearch' = t.value
  /\ UNCHANGED <<search, status, sort, page, pageSize, pageInput, sp, session>>
  /\ UNCHANGED <<cache, hasData, toasts, pageRest, debounceId, quiet>>
  /\ Render
  /\ reloaded' = FALSE
  /\ due' = Changed

DebounceNext ==
  \/ \E text \in SearchInputs : TypeSearch(text)
  \/ Tick
  \/ \E t \in debounceTimers : TimerElapses(t)
  \/ FlushTimed

DebounceSpec == ViewInit /\ [][DebounceNext]_<<vars, viewVars>>

(***************************************************************************)
(* Selecting every result                                                  *)
(***************************************************************************)
\* selectAllFiltered refuses above this many results
SelectLimit == 500

\* the rows of the page whose checkbox is used
ToggleRows == 4

\* a guard that already refuses at the limit
tooManyAtLimit(ids) == Len(ids) >= SelectLimit

\* if (filteredIds.length > 500)
tooMany(ids) == Len(ids) > SelectLimit

\* the "select all results" button (disabled when there is no result)
OnSelectAll ==
  /\ ~modalOpen
  /\ filteredAndSorted # <<>>
  /\ LET filteredIds == [i \in DOMAIN filteredAndSorted |-> toKey(filteredAndSorted[i].id)]
     IN  IF tooMany(filteredIds)
         THEN /\ toasts' = <<Note("error", "selectAll")>>
              /\ selected' = selected
         ELSE /\ toasts' = <<>>
              /\ selected' = selected \cup Range(filteredIds)
  /\ UNCHANGED <<server, cache, hasData, fetch, muts, bulks, reqs, timers,
                 deleteTarget, editTarget, creates, nextId, ops, refreshes>>

\* the page some time after it was opened with a status filter, showing a
\* collection at the limit or one above it (half of its items completed); the
\* first item may have been selected before the filter was set
SelectInit ==
  /\ server = InitialServer
  /\ hasData = TRUE
  /\ cache \in {[n \in 1..len |-> Todo(NumId(n), TitleA, n % 2 = 0)] :
                  len \in {SelectLimit, SelectLimit + 1}}
  /\ fetch = IdleFetch
  /\ muts = <<>>
  /\ bulks = <<>>
  /\ reqs = <<>>
  /\ timers = {}
  /\ selected \in {{}, {toKey(NumId(1))}}
  /\ deleteTarget = NoTodo
  /\ editTarget = NoTodo
  /\ creates = <<>>
  /\ nextId = FirstNewId
  /\ toasts = <<>>
  /\ ops = 0
  /\ refreshes = 0
  /\ search = <<>>
  /\ debouncedSearch = <<>>
  /\ status \in ALLOWED_STATUS
  /\ sort = SortActiveFirst
  /\ page = Whole(1)
  /\ pageSize = DefaultPageSize
  /\ pageInput = String(Whole(1))
  /\ sp = viewParams(search, status, sort, page, pageSize)
  /\ session = (IF sp # <<>> THEN <<"?">> \o sp ELSE <<>>)
  /\ filteredAndSorted = project(todos, debouncedSearch, status, sort)
  /\ reloaded = FALSE
  /\ due = {}
  /\ debounceTimers = {}
  /\ debounceId = 0
  /\ quiet = Delay

SelectNext ==
  \/ OnSelectAll /\ UNCHANGED viewVars
  \/ \E t \in Range(SubSeq(paged, 1, ToggleRows)) : OnToggleSelect(t) /\ UNCHANGED viewVars
  \/ OnClearSelection /\ UNCHANGED viewVars

SelectSpec == SelectInit /\ [][SelectNext]_<<vars, viewVars>>

(***************************************************************************)
(* Specification                                                           *)
(***************************************************************************)
Next ==
  \/ OnRefresh /\ UNCHANGED viewVars
  \/ FetchServe /\ UNCHANGED viewVars
  \/ FetchArrive /\ UNCHANGED viewVars
  \/ FetchFail /\ UNCHANGED viewVars
  \/ \E t \in Range(todos) : OnToggle(t) /\ UNCHANGED viewVars
  \/ \E t \in Range(todos) : OnAskEdit(t) /\ UNCHANGED viewVars
  \/ OnCancelEdit /\ UNCHANGED viewVars
  \/ \E typed \in EditInputs : OnConfirmEditShort(typed) /\ UNCHANGED viewVars
  \/ \E typed \in EditInputs : OnConfirmEdit(typed) /\ UNCHANGED viewVars
  \/ \E i \in DOMAIN muts : \E patchOk, putOk \in Answers(server, muts[i].vars.id) :
       UpdateOk(i, patchOk, putOk) /\ UNCHANGED viewVars
  \/ \E i \in DOMAIN muts : \E patchOk, putOk \in BOOLEAN : UpdateFail(i, patchOk, putOk) /\ UNCHANGED viewVars
  \/ \E t \in Range(todos) : OnToggleSelect(t) /\ UNCHANGED viewVars
  \/ OnClearSelection /\ UNCHANGED viewVars
  \/ BulkCompleteNothing /\ UNCHANGED viewVars
  \/ BulkComplete /\ UNCHANGED viewVars
  \/ \E b \in DOMAIN bulks : \E i \in DOMAIN bulks[b].calls :
       \E patchOk, putOk \in Answers(server, bulks[b].items[i].id) : BulkCallOk(b, i, patchOk, putOk) /\ UNCHANGED viewVars
  \/ \E b \in DOMAIN bulks : \E i \in DOMAIN bulks[b].calls :
       \E patchOk, putOk \in BOOLEAN : BulkCallFail(b, i, patchOk, putOk) /\ UNCHANGED viewVars
  \/ \E t \in Range(todos) : OnAskDelete(t) /\ UNCHANGED viewVars
  \/ OnCancelDelete /\ UNCHANGED viewVars
  \/ OnConfirmDeleteModal /\ UNCHANGED viewVars
  \/ BulkDelete /\ UNCHANGED viewVars
  \/ \E h \in DOMAIN reqs : TimerFire(h) /\ UNCHANGED viewVars
  \/ \E h \in DOMAIN reqs : \E i \in DOMAIN reqs[h].calls : DeleteOk(h, i) /\ UNCHANGED viewVars
  \/ \E h \in DOMAIN reqs : \E i \in DOMAIN reqs[h].calls : DeleteFail(h, i) /\ UNCHANGED viewVars
  \/ \E h \in DOMAIN reqs : Undo(h) /\ UNCHANGED viewVars
  \/ \E h \in DOMAIN reqs : ToastExpire(h) /\ UNCHANGED viewVars
  \/ OnSubmit(TitleNew) /\ UNCHANGED viewVars
  \/ \E c \in DOMAIN creates : CreateServe(c) /\ UNCHANGED viewVars
  \/ \E c \in DOMAIN creates : CreateOk(c) /\ UNCHANGED viewVars
  \/ \E c \in DOMAIN creates : CreateFail(c) /\ UNCHANGED viewVars

Spec == Init /\ [][Next]_<<vars, viewVars>>

(***************************************************************************)
(* Properties                                                              *)
(***************************************************************************)
UpdateError == <<Note("error", "update")>>
BulkError == <<Note("error", "bulkComplete")>>
UndoDone == <<Note("success", "undo")>>
DeleteError == <<Note("error", "delete")>>
CreateDone == <<Note("success", "create"), Note("success", "create")>>

\* the step in which update mutation i settles as failed
UpdateFailed(i) ==
  /\ i \in DOMAIN muts
  /\ muts' = RemoveAt(muts, i)
  /\ toasts' # <<Note("success", "update")>>

\* the step in which the undo of request h runs
UndoStep(h) ==
  /\ h \in DOMAIN reqs
  /\ reqs[h].toast = "shown"
  /\ reqs'[h].toast = "gone"
  /\ toasts' = UndoDone

\* C1: when a toggle or a title edit fails while the cache still holds its
\* optimistic state, the rollback leaves the cache equal to the collection
\* before the mutation, and a failure notification is emitted.
C1_OptimisticRollback ==
  [][\A i \in DOMAIN muts :
       (UpdateFailed(i) /\ cache = ReplaceById(muts[i].orig, muts[i].vars))
         => (cache' = muts[i].orig /\ toasts' = UpdateError)]_vars

\* C1 witness: the only operation was an update that changed the cache, it
\* failed, and the cache is the loaded collection again
C1_Witness ==
  /\ toasts = UpdateError
  /\ ops = 1
  /\ muts = <<>>
  /\ refreshes = 0
  /\ cache = InitialServer

\* the step in which a failed update or a failed bulk complete rolls back,
\* with the keys of the items that operation changed
RollbackStep(keys) ==
  \/ \E i \in DOMAIN muts :
       /\ UpdateFailed(i)
       /\ toasts' = UpdateError
       /\ keys = {toKey(muts[i].vars.id)}
  \/ \E b \in DOMAIN bulks :
       /\ ~bulks[b].rejected
       /\ IF Len(bulks') = Len(bulks)
          THEN bulks'[b].rejected
          ELSE bulks' = RemoveAt(bulks, b)
       /\ toasts' = BulkError
       /\ keys = Keys(bulks[b].items)

\* C2 (as claimed): the rollback of a failed update or bulk complete reverts
\* only that operation's own items; the items other operations removed,
\* restored or prepended meanwhile stay as they are.
C2_RollbackOwnChangeOnly ==
  [][\A keys \in SUBSET Keys(cache \o cache') :
       RollbackStep(keys) =>
         /\ Len(cache') = Len(cache)
         /\ \A i \in DOMAIN cache :
              /\ cache'[i].id = cache[i].id
              /\ toKey(cache[i].id) \notin keys => cache'[i] = cache[i]]_vars

\* C3: undoing a delete or a bulk delete of items of the collection, before
\* the timer fires and with the cache as the removal left it, restores the
\* collection exactly as it was before the delete.
C3_UndoRestoresPosition ==
  [][\A h \in DOMAIN reqs :
       (/\ UndoStep(h)
        /\ reqs[h].timer = "armed"
        /\ Range(reqs[h].items) \subseteq Range(reqs[h].orig)
        /\ cache = removeFromCache(reqs[h].orig,
                                   [i \in DOMAIN reqs[h].items |-> reqs[h].items[i].id]))
         => cache' = reqs[h].orig]_vars

\* C3 witness: the middle item of a three-item collection was deleted and
\* undone, and the collection is as before
C3_Witness ==
  \E h \in DOMAIN reqs :
    /\ toasts = UndoDone
    /\ reqs[h].undone
    /\ reqs[h].indices = <<1>>
    /\ Len(reqs[h].orig) = 3
    /\ reqs[h].items[1] = reqs[h].orig[2]
    /\ cache = reqs[h].orig

\* C4 (as claimed): a request whose undo was invoked before its timer fired
\* never issues a remote delete.
C4_UndoPreventsRemoteDelete ==
  \A h \in DOMAIN reqs : reqs[h].undone => reqs[h].calls = <<>>

\* C5 (as claimed): an undo invoked after the request's timer has fired
\* changes neither the cache nor the timer map.
C5_UndoAfterFireIsNoOp ==
  [][\A h \in DOMAIN reqs :
       (UndoStep(h) /\ reqs[h].timer = "fired")
         => (cache' = cache /\ timers' = timers)]_vars

\* an identifier that is a string starting with "temp-"
TempIdentifier(id) == (~id.num) /\ Len(id.s) >= 5 /\ SubSeq(id.s, 1, 5) = TempPrefix

CallsFor(calls, id) == Cardinality({i \in DOMAIN calls : calls[i].id = id})

\* C6: when the timer of a request fires, exactly one remote delete is issued
\* for each of its items without a temporary identifier and none for the
\* others, and no call is added afterwards.
C6_FireDeletesPersistedItemsOnce ==
  [][\A h \in DOMAIN reqs :
       /\ (reqs[h].timer = "armed" /\ reqs'[h].timer = "fired")
            => \A k \in DOMAIN reqs[h].items :
                 CallsFor(reqs'[h].calls, reqs[h].items[k].id)
                   = IF TempIdentifier(reqs[h].items[k].id) THEN 0 ELSE 1
       /\ reqs[h].timer # "armed"
            => [i \in DOMAIN reqs'[h].calls |-> reqs'[h].calls[i].id]
                 = [i \in DOMAIN reqs[h].calls |-> reqs[h].calls[i].id]]_vars

\* C6 witness: a fired bulk delete of a persisted and a temporary item has
\* one call, for the persisted item
C6_Witness ==
  \E h \in DOMAIN reqs :
    /\ reqs[h].timer = "fired"
    /\ Len(reqs[h].items) = 2
    /\ \E k \in DOMAIN reqs[h].items : TempIdentifier(reqs[h].items[k].id)
    /\ Len(reqs[h].calls) = 1
    /\ ~TempIdentifier(reqs[h].calls[1].id)

\* C7: when the remote deletes of a fired request have settled and one of
\* them failed, a refetch is triggered and a failure notification is shown,
\* the cache is left as it is, and the settled calls are never issued again.
C7_FailedDeleteInvalidates ==
  [][\A h \in DOMAIN reqs :
       /\ (~Settled(reqs[h].calls) /\ Settled(reqs'[h].calls)
           /\ \E i \in DOMAIN reqs'[h].calls : reqs'[h].calls[i].st = "failed")
            => (fetch'.st = "pending" /\ toasts' = DeleteError /\ cache' = cache)
       /\ (reqs[h].timer = "fired" /\ Settled(reqs[h].calls))
            => reqs'[h].calls = reqs[h].calls]_vars

\* C7 witness: a remote delete has just failed, the item is still out of the
\* cache and the refetch is pending
C7_Witness ==
  \E h \in DOMAIN reqs :
    /\ toasts = DeleteError
    /\ fetch.st = "pending"
    /\ \E i \in DOMAIN reqs[h].calls :
         /\ reqs[h].calls[i].st = "failed"
         /\ toKey(reqs[h].calls[i].id) \notin Keys(cache)

\* C8 (as claimed): no two armed delete requests have the same key.
C8_OneArmedRequestPerKey ==
  \A g, h \in DOMAIN reqs :
    (g # h /\ reqs[g].timer = "armed" /\ reqs[h].timer = "armed") => reqs[g].key # reqs[h].key

\* C9: the identifiers of the cached collection are pairwise different.
C9_UniqueIdentifiers ==
  \A i, j \in DOMAIN cache : i # j => toKey(cache[i].id) # toKey(cache[j].id)

\* C9 witness: the same item was deleted twice (it had come back with a
\* refetch) and both requests were undone: the second undo found the item
\* in the cache and did not insert it again
C9_Witness ==
  \E g, h \in DOMAIN reqs :
    /\ g # h
    /\ reqs[g].key = reqs[h].key
    /\ reqs[g].undone /\ reqs[h].undone
    /\ toasts = UndoDone
    /\ reqs[g].key \in Keys(cache)

\* the step in which create c settles, with success or with failure
CreateSettles(c, st) ==
  /\ c \in DOMAIN creates
  /\ creates[c].st = st
  /\ creates' = RemoveAt(creates, c)

\* C10: on create success the returned item is put at index 0 unless an item
\* with its identifier is cached, in which case the cache is left unchanged;
\* on create failure the cache is left unchanged.
C10_DuplicateCreateGuard ==
  [][\A c \in DOMAIN creates :
       /\ CreateSettles(c, "served") =>
            IF \E i \in DOMAIN todos : todos[i].id = creates[c].item.id
            THEN cache' = cache
            ELSE cache' = <<creates[c].item>> \o todos
       /\ CreateSettles(c, "sent") => cache' = cache]_vars

\* C10 witness: the create response arrived after a refetch had already
\* brought the new item: it is cached once, where the refetch put it
C10_Witness ==
  /\ toasts = CreateDone
  /\ Len(cache) = 3
  /\ cache[3].id = NumId(FirstNewId)
  /\ cache[1].id # NumId(FirstNewId)

\* the step in which a bulk delete is requested
BulkDeleteStep ==
  /\ Len(reqs') = Len(reqs) + 1
  /\ StartsWith(reqs'[Len(reqs')].key, BulkPrefix)

\* the step in which a bulk complete is started
BulkCompleteStep == Len(bulks') = Len(bulks) + 1

\* C11: every selected key is the key of an item of the collection, whatever
\* path removed items from it; and a bulk delete or bulk complete takes only
\* items that are selected and in the collection.
C11_SelectionPruned ==
  /\ [](selected \subseteq Keys(todos))
  /\ [][/\ BulkDeleteStep =>
            LET items == reqs'[Len(reqs')].items
            IN  Range(items) \subseteq Range(todos) /\ Keys(items) \subseteq selected
        /\ BulkCompleteStep =>
            LET items == bulks'[Len(bulks')].items
            IN  Range(items) \subseteq Range(todos) /\ Keys(items) \subseteq selected]_vars

\* C11 witness: two rows were selected, one of them was deleted with the
\* delete button of its row, and only the other one is still selected
C11_Witness ==
  \E h \in DOMAIN reqs :
    /\ reqs[h].key \in reqs[h].sel
    /\ reqs[h].timer = "armed"
    /\ reqs[h].key \notin Keys(todos)
    /\ reqs[h].key \notin selected
    /\ selected # {}

\* the step in which a mutating operation settles: an update, a create, the
\* calls of a bulk complete, the remote deletes of a fired request
SettleStep ==
  \/ \E i \in DOMAIN muts : muts' = RemoveAt(muts, i)
  \/ \E c \in DOMAIN creates : creates' = RemoveAt(creates, c) /\ toasts' # <<>>
  \/ toasts' = BulkError
  \/ toasts' = <<Note("success", "bulkComplete")>>
  \/ \E h \in DOMAIN reqs :
       /\ reqs[h].timer = "fired"
       /\ reqs[h].calls # <<>>
       /\ ~Settled(reqs[h].calls)
       /\ Settled(reqs'[h].calls)

\* C12 (as claimed): every settle step of a mutating operation, success or
\* failure, leaves a refetch of the collection under way.
C12_SettleMarksStale ==
  [][SettleStep => fetch'.st = "pending"]_vars

\* C13 (as claimed): when a call of a bulk complete fails and another call of
\* it has succeeded, the items whose call succeeded stay completed in the
\* cache and a refetch is triggered.
C13_PartialFailureKeepsSuccesses ==
  [][\A b \in DOMAIN bulks :
       (/\ toasts' = BulkError
        /\ ~bulks[b].rejected
        /\ \E i \in DOMAIN bulks[b].calls : bulks[b].calls[i] = "ok"
        /\ IF Len(bulks') = Len(bulks) THEN bulks'[b].rejected ELSE bulks' = RemoveAt(bulks, b))
         => /\ \A i \in DOMAIN bulks[b].calls :
                 bulks[b].calls[i] = "ok" =>
                   \A k \in DOMAIN cache' :
                     cache'[k].id = bulks[b].items[i].id => cache'[k].completed
            /\ fetch'.st = "pending"]_vars

\* the success and failure notifications among notes
Terminal(notes) ==
  LET IsTerminal(n) == n.kind \in {"success", "error"}
  IN  SelectSeq(notes, IsTerminal)

\* C14 (as claimed): the step in which a mutating operation settles emits
\* exactly one success or failure notification.
C14_OneTerminalNotification ==
  [][SettleStep => Len(Terminal(toasts')) = 1]_vars

\* an item passes the status filter and the search for q
Matches(t, q) ==
  /\ status = StatusActive => ~t.completed
  /\ status = StatusCompleted => t.completed
  /\ q = <<>> \/ includes(toLowerCase(t.title), q)

\* the number of items that pass the status filter and the search
Matching ==
  Cardinality(UNION {{i \in DOMAIN todos : Matches(todos[i], q)} :
                       q \in {toLowerCase(trim(debouncedSearch))}})

PageInRange ==
  /\ \E n \in 0..Matching :
       /\ n * pageSize >= Matching * Tenth
       /\ n = 0 \/ (n - 1) * pageSize < Matching * Tenth
       /\ totalPages = Whole(IF n > 1 THEN n ELSE 1)
  /\ totalPages >= Whole(1)
  /\ Whole(1) <= currentPage
  /\ currentPage <= totalPages
  /\ paged = slice(filteredAndSorted,
                   ((currentPage - Whole(1)) * pageSize) \div Tenth,
                   ((currentPage - Whole(1)) * pageSize) \div Tenth + pageSize)

ResetFlush == FlushEffects /\ "reset" \in due

\* C16 (as claimed): a change of the debounced search text, the status
\* filter, the sort mode or the page size is followed by page being set to 1,
\* and a page change alone leaves search, status, sort and page size alone.
C16_PageReset ==
  /\ [][ResetFlush => page' = Whole(1)]_<<vars, viewVars>>
  /\ [][(\E p \in PageButtons : GoToPage(p)) =>
          UNCHANGED <<search, debouncedSearch, status, sort, pageSize>>]_<<vars, viewVars>>

\* the view parameters, the search text as it is encoded
ViewParameters == <<trim(search), status, sort, page, pageSize>>

\* C17 (as claimed): the location string is the encoding of the current view,
\* loading the page from it gives the same view parameters, a page greater
\* than 1 included, and they stay when the effects of the mount have run.
C17_ViewRestored ==
  /\ [](due = {} =>
          sp = toString(viewParams(search, status, sort, page, pageSize)))
  /\ [][Reload => ViewParameters' = ViewParameters]_<<vars, viewVars>>
  /\ [][FlushEffects /\ reloaded =>
          ViewParameters' = ViewParameters]_<<vars, viewVars>>

\* C18 (as claimed): whatever the location holds, the initial view parameters
\* read from it have a status in {all, active, completed}, a sort mode in
\* {activeFirst, completedFirst, az, za}, a page that is an integer of at least
\* 1 and a page size in {10, 20, 50}.
C18_InitialParameters ==
  \A init \in {initRef(params) : params \in {URLSearchParams(sp)}} :
    /\ init.status \in ALLOWED_STATUS
    /\ init.sort \in ALLOWED_SORT
    /\ IsInteger(init.page)
    /\ init.page >= Whole(1)
    /\ init.pageSize \in ALLOWED_PAGE_SIZES

\* the encoded view string of the current render
Encoded == toString(viewParams(search, status, sort, currentPage, pageSize))

HasKey(params, key) == get(params, key).some

\* C19: the encoded view string holds q only if the trimmed search text is not
\* empty, status only if it is not all, sort only if it is not activeFirst,
\* page only if the current page is not 1 and ps only if the page size is not
\* 10; the default view encodes to the empty string; once the effects have
\* run, the location holds that string and the session store the same string
\* (behind its question mark).
C19_EncodedOmitsDefaults ==
  \A text \in {Encoded} : \A params \in {URLSearchParams(text)} :
    /\ HasKey(params, KeyQ) => trim(search) # <<>>
    /\ HasKey(params, KeyStatus) => status # StatusAll
    /\ HasKey(params, KeySort) => sort # SortActiveFirst
    /\ HasKey(params, KeyPage) => currentPage # Whole(1)
    /\ HasKey(params, KeyPs) => pageSize # DefaultPageSize
    /\ (/\ trim(search) = <<>>
        /\ status = StatusAll
        /\ sort = SortActiveFirst
        /\ currentPage = Whole(1)
        /\ pageSize = DefaultPageSize) => text = <<>>
    /\ due = {} => /\ sp = text
                   /\ session = (IF text = <<>> THEN <<>> ELSE <<"?">> \o text)

\* the effects have written a string with a search text and a status and
\* without a page, and the session store holds it
C19_Witness ==
  /\ due = {}
  /\ session = <<"?">> \o sp
  /\ \A params \in {URLSearchParams(sp)} :
       /\ HasKey(params, KeyQ)
       /\ HasKey(params, KeyStatus)
       /\ ~HasKey(params, KeyPage)
       /\ ~HasKey(params, KeySort)

\* where the item with this id stands in the collection
IndexIn(items, id) == CHOOSE i \in DOMAIN items : items[i].id = id

\* a comes before b, or is its equal, under the sort mode
InOrder(a, b) ==
  IF sort = SortAZ THEN localeCompare(a.title, b.title) <= 0
  ELSE IF sort = SortZA THEN localeCompare(a.title, b.title) >= 0
  ELSE IF sort = SortCompletedFirst THEN a.completed \/ ~b.completed
  ELSE ~a.completed \/ b.completed

\* C20: the projection holds exactly the items of the collection that pass the
\* status filter and match the trimmed search text without regard to case (an
\* empty text matches every item), in the order of the sort mode; under
\* activeFirst and completedFirst items with the same completed flag keep
\* their order of the collection; the page shown is the slice
\* [(page-1)*pageSize, page*pageSize) of it; and computing the projection
\* again from the same inputs gives the same list.
C20_Projection ==
  /\ \A q \in {toLowerCase(trim(debouncedSearch))} :
     \A found \in {{i \in DOMAIN todos : Matches(todos[i], q)}} :
       /\ {t.id : t \in Range(filteredAndSorted)} = {todos[i].id : i \in found}
       /\ Range(filteredAndSorted) \subseteq Range(todos)
       /\ Len(filteredAndSorted) = Cardinality(found)
  /\ \A k \in 1..(Len(filteredAndSorted) - 1) :
       InOrder(filteredAndSorted[k], filteredAndSorted[k + 1])
  /\ sort \in {SortActiveFirst, SortCompletedFirst} =>
       \A k \in 1..(Len(filteredAndSorted) - 1) :
         filteredAndSorted[k].completed = filteredAndSorted[k + 1].completed =>
           IndexIn(todos, filteredAndSorted[k].id) < IndexIn(todos, filteredAndSorted[k + 1].id)
  /\ LET start == ((currentPage - Whole(1)) * pageSize) \div (Tenth * Tenth)
         end == start + pageSize \div Tenth
     IN  paged = SubSeq(filteredAndSorted, start + 1,
                        IF end < Len(filteredAndSorted) THEN end ELSE Len(filteredAndSorted))
  /\ filteredAndSorted = project(todos, debouncedSearch, status, sort)

\* the filter active over items 1, 2 (completed), 3 shows 1 then 3
C20_Witness ==
  /\ due = {}
  /\ todos = SmallList
  /\ status = StatusActive
  /\ debouncedSearch = <<>>
  /\ sort = SortActiveFirst
  /\ [k \in DOMAIN paged |-> paged[k].id] = <<NumId(1), NumId(3)>>

\* C21 (as claimed): confirming an edit whose trimmed title has fewer than 3
\* characters changes neither the cache nor the remote collection, starts no
\* update, and emits nothing on the notification channel.
C21_ValidationFailure ==
  [][(\E typed \in EditInputs : OnConfirmEditShort(typed)) =>
       /\ cache' = cache
       /\ server' = server
       /\ muts' = muts
       /\ toasts' = <<>>]_vars

\* the step in which update mutation i settles as successful
UpdateSucceeded(i) ==
  /\ i \in DOMAIN muts
  /\ muts' = RemoveAt(muts, i)
  /\ toasts' = <<Note("success", "update")>>

\* C22: when an update succeeds, the cached item with the identifier of the
\* item the server returned is replaced by it, every other item and the order
\* of the collection stay, and nothing is inserted when the cache no longer
\* holds the item.
C22_SuccessOverwritesOneItem ==
  [][\A i \in DOMAIN muts :
       UpdateSucceeded(i) =>
         /\ Len(cache') = Len(cache)
         /\ \A k \in DOMAIN cache :
              cache'[k] = IF cache[k].id = muts[i].vars.id
                          THEN ServerItem(server', muts[i].vars.id)
                          ELSE cache[k]]_vars

\* an update succeeded for an item that had left the cache while the update
\* was in flight, and the cache still does not hold it
C22_Witness ==
  /\ toasts = <<Note("success", "update")>>
  /\ \E t \in Range(server) : t.completed /\ toKey(t.id) \notin Keys(cache)

\* the step in which bulkComplete b resolves: Promise.all resolves or rejects
BulkResolved(b) ==
  /\ b \in DOMAIN bulks
  /\ ~bulks[b].rejected
  /\ IF Len(bulks') = Len(bulks) THEN bulks'[b] # bulks[b] ELSE bulks' = RemoveAt(bulks, b)
  /\ toasts' \in {<<Note("success", "bulkComplete")>>, BulkError}

\* the item under key, where the list holds one, is t
ItemIs(list, key, t) == \A k \in DOMAIN list : toKey(list[k].id) = key => list[k] = t

ItemOf(list, key) == list[CHOOSE k \in DOMAIN list : toKey(list[k].id) = key]

\* what the operation that resolves in this step produces for the item under
\* key: the server's item when it succeeded, the item of its snapshot when it
\* failed
Produced(ok, prev, key) ==
  IF ok THEN ItemOf(server', key) ELSE ItemOf(prev, key)

\* C23 (as claimed): when an update of an item and another operation that
\* updates the same item were in flight at the same time, the cached item after
\* the later of the two has resolved is the one that resolution produces: the
\* server's item on success, the item of that operation's snapshot on failure.
C23_LastResolvedWins ==
  [][/\ \A i \in DOMAIN muts :
          (/\ muts[i].met
           /\ muts' = RemoveAt(muts, i)
           /\ ~\E b \in DOMAIN bulks : Overlaps(bulks[b], muts[i].vars))
            => ItemIs(cache', toKey(muts[i].vars.id),
                      Produced(UpdateSucceeded(i), muts[i].prev, toKey(muts[i].vars.id)))
     /\ \A b \in DOMAIN bulks : \A key \in bulks[b].met :
          (/\ BulkResolved(b)
           /\ ~\E i \in DOMAIN muts : toKey(muts[i].vars.id) = key)
            => ItemIs(cache', key,
                      Produced(toasts' # BulkError, bulks[b].prev, key))]_vars

\* C24: the debounced search text changes only when the raw text has not
\* changed for Delay milliseconds, and then to the raw text; never more than
\* one timer is pending, and once the render of a change has run its effects
\* the pending timer is the one set for the text of that change; once the raw
\* text has been quiet for Delay milliseconds and the timer that was due has
\* run, the debounced text is the raw text
C24_Debounce ==
  /\ [](Cardinality(debounceTimers) <= 1)
  /\ [](due = {} =>
          \A t \in debounceTimers : t.value = search /\ t.left = Delay - quiet)
  /\ []((due = {} /\ quiet = Delay /\ \A t \in debounceTimers : t.left > 0)
          => debouncedSearch = search)
  /\ [][debouncedSearch' # debouncedSearch
          => quiet = Delay /\ debouncedSearch' = search]_<<vars, viewVars>>

\* the raw text was changed, stayed quiet for Delay milliseconds and was taken over
C24_Witness ==
  /\ quiet = Delay
  /\ debounceTimers = {}
  /\ debouncedSearch = <<" ", "B", " ">>
  /\ search = debouncedSearch

\* C25: the "select all results" step leaves the selection as it is and emits
\* an error notification exactly when there are more than SelectLimit results;
\* otherwise it emits none and the selection becomes the keys it held together
\* with the key of every result
C25_SelectAll ==
  [][OnSelectAll =>
       IF Len(filteredAndSorted) > SelectLimit
       THEN selected' = selected /\ toasts' = <<Note("error", "selectAll")>>
       ELSE /\ toasts' = <<>>
            /\ selected \subseteq selected'
            /\ selected' \ selected =
                 {toKey(t.id) : t \in Range(filteredAndSorted)} \ selected]_<<vars, viewVars>>

\* exactly SelectLimit results were all selected
C25_Witness ==
  /\ Len(filteredAndSorted) = SelectLimit
  /\ selected = {toKey(t.id) : t \in Range(filteredAndSorted)}
  /\ toasts = <<>>

\* the step was refused above the limit
C25_Refused ==
  /\ Len(filteredAndSorted) > SelectLimit
  /\ toasts = <<Note("error", "selectAll")>>

\* C26: an update sends PATCH first and sends PUT after it exactly when the
\* PATCH failed; an update settles as failed (error notification, rollback)
\* only when PATCH and PUT both failed, and it resolves whenever one of the
\* two succeeded
C26_PatchThenPut ==
  [][\A i \in DOMAIN muts : \A patchOk, putOk \in BOOLEAN :
       /\ updateTodoRobust(patchOk, putOk).verbs =
            (IF patchOk THEN <<"PATCH">> ELSE <<"PATCH", "PUT">>)
       /\ UpdateFail(i, patchOk, putOk) =>
            /\ ~patchOk /\ ~putOk
            /\ toasts' = UpdateError
            /\ cache' = onErrorCache(muts[i], cache)
       /\ ({patchOk, putOk} \subseteq Answers(server, muts[i].vars.id)
             /\ UpdateOk(i, patchOk, putOk)) =>
            /\ patchOk \/ putOk
            /\ toasts' = <<Note("success", "update")>>
       /\ updateTodoRobust(patchOk, putOk).ok = (patchOk \/ putOk)]_vars

\* an update was reported as failed and another as successful
C26_Witness ==
  /\ muts = <<>>
  /\ ops = MaxOps
  /\ toasts = UpdateError
  /\ server # InitialServer

\* C27 (as claimed): while a delete request is armed, none of its items is in
\* the cached collection.
C27_ArmedItemsAbsent ==
  \A h \in DOMAIN reqs :
    (reqs[h].timer = "armed" /\ ~reqs[h].undone) =>
      Keys(reqs[h].items) \cap Keys(cache) = {}

\* two delete requests of one item each, the second armed while the first
\* was armed, both undone before a timer fired, and nothing else has happened
\* since the list was loaded
UndoneSingles ==
  /\ Len(reqs) = 2
  /\ ops = Len(reqs)
  /\ \A h \in DOMAIN reqs :
       /\ Len(reqs[h].items) = 1
       /\ reqs[h].key = toKey(reqs[h].items[1].id)
       /\ reqs[h].undone
       /\ reqs[h].calls = <<>>
  /\ reqs[1].orig = InitialServer
  /\ reqs[2].orig = removeFromCache(reqs[1].orig, <<reqs[1].items[1].id>>)
  /\ muts = <<>> /\ bulks = <<>> /\ creates = <<>>
  /\ refreshes = 0 /\ fetch = IdleFetch
  /\ server = InitialServer

\* C28 (as claimed): when several single-item deletes were armed one after
\* another and all were undone before a timer fired, in any order, the cache
\* is the original sequence.
C28_UndoAllRestoresOrder == UndoneSingles => cache = reqs[1].orig

\* C29 (as claimed): the timer map has an entry under a key exactly while a
\* delete request with that key is armed, and the entry holds the handle of
\* that request's timer.
C29_TimerMapTracksArmed ==
  /\ \A h \in DOMAIN reqs :
       reqs[h].timer = "armed" =>
         HasTimer(timers, reqs[h].key) /\ TimerOf(timers, reqs[h].key) = h
  /\ \A e \in timers :
       e.h \in DOMAIN reqs /\ reqs[e.h].timer = "armed" /\ reqs[e.h].key = e.key

\* no remote call is in flight, no delete timer is armed and no fetch is
\* under way, after the collection was loaded
Quiescent ==
  /\ hasData
  /\ fetch = IdleFetch
  /\ muts = <<>>
  /\ bulks = <<>>
  /\ \A c \in DOMAIN creates : creates[c].st \notin {"sent", "served"}
  /\ \A h \in DOMAIN reqs : reqs[h].timer # "armed" /\ Settled(reqs[h].calls)

\* C30 (as claimed): in a quiescent state the cache holds exactly the items of
\* the server collection, with the same field values.
C30_QuiescentConvergence == Quiescent => Range(cache) = Range(server)

====
